---- MODULE Spec2Model ----
(***************************************************************************)
(* Message-routing and decision core of the Sentri retail security         *)
(* assistant: the cross-platform conversation memory (MemoryManager), the  *)
(* provider fallback chain (LLMRouter with ClaudeLLM, GeminiLLM, LocalLLM), *)
(* the gateway orchestrator (SentriGateway.process_message), the intent   *)
(* classifier (IntentRouter) and the risk scorers (LinkScanner,            *)
(* EmailScanner, LogsScanner, analyze_link, security_stub_scan).           *)
(*                                                                         *)
(* Text is a sequence of tokens: <<>> is the empty string, \o is string    *)
(* concatenation, and a slice of a string is a slice of its tokens.        *)
(* Timestamps (created_at, updated_at, MemoryEntry.timestamp) and the      *)
(* metadata stored with memory entries and responses are not modelled.     *)
(***************************************************************************)
EXTENDS Integers, Sequences, FiniteSets, TLC

\* ------------------------------------------------------------------------
\* Bounds of the model
\* ------------------------------------------------------------------------

\* Largest max_entries a MemoryManager is constructed with.
MaxCap == 2

\* save_memory calls in one behaviour.
MaxSaves == 3

\* process_message calls in one behaviour.
MaxMessages == 2

\* ------------------------------------------------------------------------
\* Python values and built-ins used by the code
\* ------------------------------------------------------------------------

\* Python's None, told apart from every string (no text holds this token).
None == <<"<None>">>

\* Truth value of a string-or-None, as `if x:` tests it.
Truthy(x) == x # None /\ x # <<>>

Min(a, b) == IF a <= b THEN a ELSE b

Max(a, b) == IF a >= b THEN a ELSE b

\* A slice bound i normalised against a sequence of length n, as Python does
\* for s[i:] and s[:i]: negative bounds count from the end, and bounds
\* outside the sequence are clipped.
PyIndex(i, n) == IF i < 0 THEN Max(i + n, 0) ELSE Min(i, n)

\* s[i:j]
PySlice(s, i, j) ==
    LET lo == PyIndex(i, Len(s))
        hi == PyIndex(j, Len(s))
    IN  IF lo >= hi THEN <<>> ELSE SubSeq(s, lo + 1, hi)

\* s[i:]
PyFrom(s, i) == PySlice(s, i, Len(s))

\* s[:j]
PyTo(s, j) == PySlice(s, 0, j)

\* sep.join(parts), for parts a sequence of strings.
RECURSIVE Join(_, _)
Join(parts, sep) ==
    IF parts = <<>> THEN <<>>
    ELSE IF Len(parts) = 1 THEN parts[1]
    ELSE parts[1] \o <<sep>> \o Join(Tail(parts), sep)

\* ------------------------------------------------------------------------
\* MemoryManager (agent_gateway/memory_manager.py)
\* ------------------------------------------------------------------------

\* The platform prefixes normalize_user_id strips, in the order it tries them.
Prefixes == <<"telegram_", "web_", "mobile_", "api_">>

\* entry.content[:50] in _trim_memory
SummaryCut == 50

\* summary_parts[-5:] in _trim_memory
SummaryKeep == 5

\* entry.content[:200] in get_context_string
ContextCut == 200

\* default max_turns of get_context_string
DefaultMaxTurns == 3

\* default max_entries of MemoryManager
DefaultMaxEntries == 20

\* user_id.startswith(prefix)
StartsWith(user_id, prefix) == Len(user_id) >= 1 /\ user_id[1] = prefix

\* MemoryManager.normalize_user_id: the first prefix that matches is removed
\* (once: the loop breaks), then "user_" is put in front.
normalize_user_id(user_id, platform) ==
    LET hits == {i \in 1..Len(Prefixes) : StartsWith(user_id, Prefixes[i])}
        stripped == IF hits = {} THEN user_id ELSE Tail(user_id)
    IN  <<"user_">> \o stripped

\* ConversationContext(user_id=normalized_id, last_platform=platform)
ConversationContext(normalized_id, platform) ==
    [user_id |-> normalized_id, entries |-> <<>>, summary |-> <<>>,
     last_intent |-> None, last_platform |-> platform]

\* MemoryEntry(role, content, platform, intent)
MemoryEntry(role, content, platform, intent) ==
    [role |-> role, content |-> content, platform |-> platform, intent |-> intent]

\* The store with key k bound to context c.
Put(st, k, c) == [x \in DOMAIN st \cup {k} |-> IF x = k THEN c ELSE st[x]]

\* MemoryManager.load_memory: the store after the call; the context returned
\* is the one bound to the normalized id in it.
load_memory(st, user_id, platform) ==
    LET k == normalize_user_id(user_id, platform)
        c == IF k \in DOMAIN st THEN st[k] ELSE ConversationContext(k, platform)
    IN  Put(st, k, [c EXCEPT !.last_platform = platform])

\* The f"[{entry.intent}] {entry.content[:50]}" parts of the entries that
\* have an intent.
RECURSIVE SummaryParts(_)
SummaryParts(old_entries) ==
    IF old_entries = <<>> THEN <<>>
    ELSE LET e == Head(old_entries)
             rest == SummaryParts(Tail(old_entries))
         IN  IF Truthy(e.intent)
             THEN << <<"[">> \o e.intent \o <<"] ">> \o PyTo(e.content, SummaryCut) >> \o rest
             ELSE rest

\* Mutant of trim_memory: keeps one entry more than max_entries.
trim_memory_keeps_one_more(context, cap) ==
    [context EXCEPT !.entries = PyFrom(context.entries, -(cap + 1))]

\* MemoryManager._trim_memory
trim_memory(context, cap) ==
    LET old_entries == PyTo(context.entries, -cap)
        kept == PyFrom(context.entries, -cap)
        summary_parts == SummaryParts(old_entries)
    IN  [context EXCEPT
            !.entries = kept,
            !.summary = IF old_entries # <<>> /\ summary_parts # <<>>
                        THEN <<"Earlier: ">> \o Join(PyFrom(summary_parts, -SummaryKeep), "; ")
                        ELSE context.summary]

\* MemoryManager.save_memory: the store after the call.
save_memory(st, cap, user_id, user_message, assistant_reply, platform, intent) ==
    LET k == normalize_user_id(user_id, platform)
        st1 == load_memory(st, user_id, platform)
        c1 == st1[k]
        appended == c1.entries \o
                    << MemoryEntry("user", user_message, platform, intent),
                       MemoryEntry("assistant", assistant_reply, platform, intent) >>
        c2 == [c1 EXCEPT !.entries = appended,
                         !.last_intent = intent,
                         !.last_platform = platform]
        c3 == IF Len(c2.entries) > cap THEN trim_memory(c2, cap) ELSE c2
    IN  Put(st1, k, c3)

\* The "Role: content[:200]" lines of get_context_string.
RECURSIVE EntryLines(_)
EntryLines(recent) ==
    IF recent = <<>> THEN <<>>
    ELSE LET e == Head(recent)
             role == IF e.role = "user" THEN "User" ELSE "Sentri"
         IN  << <<role, ": ">> \o PyTo(e.content, ContextCut) >> \o EntryLines(Tail(recent))

\* MemoryManager.get_context_string: the string returned, computed on the
\* context load_memory returned.
get_context_string(st, user_id, platform, max_turns) ==
    LET context == load_memory(st, user_id, platform)[normalize_user_id(user_id, platform)]
        head == IF context.summary # <<>>
                THEN << <<"Previous Summary: ">> \o context.summary >>
                ELSE <<>>
        recent == PyFrom(context.entries, -(max_turns * 2))
    IN  IF context.entries = <<>> THEN <<>>
        ELSE Join(head \o EntryLines(recent), "\n")

\* MemoryManager.get_user_stats: the dict returned.
get_user_stats(st, user_id, platform) ==
    LET context == load_memory(st, user_id, platform)[normalize_user_id(user_id, platform)]
    IN  [user_id |-> context.user_id,
         total_entries |-> Len(context.entries),
         has_summary |-> context.summary # <<>>,
         last_intent |-> context.last_intent,
         last_platform |-> context.last_platform]

\* clear_memory emptying the whole store.
clear_memory_everyone(st, user_id, platform) == << >>

\* MemoryManager.clear_memory: the store after the call.
clear_memory(st, user_id, platform) ==
    LET k == normalize_user_id(user_id, platform)
    IN  [x \in DOMAIN st \ {k} |-> st[x]]

\* ------------------------------------------------------------------------
\* Providers (llm/claude_llm.py, llm/gemini_llm.py, llm/local_llm.py)
\* ------------------------------------------------------------------------

\* LLMRouter._last_provider before any call.
NoProvider == "none"

Remotes == {"claude", "gemini"}

\* What a remote API call can do: answer with text, answer with an empty
\* text, or fail (network error, timeout, refusal, malformed response).
ApiOutcomes == {"text", "empty", "error"}

\* The text a remote provider's API answers with.
RemoteText(provider) == <<provider, " says">>

\* The value of an expression that may raise: exc tells that it raised.
Value(v) == [val |-> v, exc |-> FALSE]

Raise == [val |-> None, exc |-> TRUE]

\* ClaudeLLM.generate / GeminiLLM.generate: None without a client; the API
\* call runs inside try/except, which turns every error into None.
provider_generate(available, provider, api) ==
    IF ~available THEN Value(None)
    ELSE IF api = "text" THEN Value(RemoteText(provider))
    ELSE IF api = "empty" THEN Value(<<>>)
    ELSE Value(None)

\* ClaudeLLM.answer_security_question / GeminiLLM.answer_security_question:
\* generate on the question wrapped into a longer prompt.
provider_answer_security_question(available, provider, api) ==
    provider_generate(available, provider, api)

\* ClaudeLLM.explain_scan / GeminiLLM.explain_scan: None without a client,
\* else generate on a prompt built from the scan result. The prompt is
\* built outside generate's try: ', '.join(signals[:5]) raises when
\* "signals" is None.
provider_explain_scan(available, provider, api, scan_result) ==
    IF ~available THEN Value(None)
    ELSE IF scan_result.signals = None THEN Raise
    ELSE provider_generate(available, provider, api)

\* str.lower() on the words the model's prompts use.
LowerWord(w) ==
    CASE w = "Phishing" -> "phishing"
      [] w = "What" -> "what"
      [] w = "VPN" -> "vpn"
      [] OTHER -> w

Lower(text) == [i \in 1..Len(text) |-> LowerWord(text[i])]

\* re.search(rf'\b{keyword}\b', text): the keyword's words occur in a row.
ContainsWords(text, words) ==
    \E i \in 1..Len(text) :
        /\ i + Len(words) - 1 <= Len(text)
        /\ SubSeq(text, i, i + Len(words) - 1) = words

\* LocalLLM.KNOWLEDGE_BASE in its own order: the "|"-separated keywords of
\* each entry (words, and length in characters) and the entry's response.
KNOWLEDGE_BASE ==
    << [keywords |-> << [words |-> <<"phishing">>, chars |-> 8] >>,
        response |-> <<"**Phishing**", " is a cyber attack ...">>],
       [keywords |-> << [words |-> <<"malware">>, chars |-> 7] >>,
        response |-> <<"**Malware**", " is malicious software ...">>],
       [keywords |-> << [words |-> <<"password">>, chars |-> 8] >>,
        response |-> <<"**Strong Password Tips:**", " ...">>],
       [keywords |-> << [words |-> <<"2fa">>, chars |-> 3],
                        [words |-> <<"mfa">>, chars |-> 3],
                        [words |-> <<"authentication">>, chars |-> 14] >>,
        response |-> <<"**Two-Factor Authentication (2FA/MFA)**", " ...">>],
       [keywords |-> << [words |-> <<"ransomware">>, chars |-> 10] >>,
        response |-> <<"**Ransomware**", " encrypts your files ...">>],
       [keywords |-> << [words |-> <<"vpn">>, chars |-> 3] >>,
        response |-> <<"**VPN (Virtual Private Network)**", " ...">>],
       [keywords |-> << [words |-> <<"social", "engineering">>, chars |-> 18] >>,
        response |-> <<"**Social Engineering**", " manipulates people ...">>] >>

\* LocalLLM.FALLBACKS
FALLBACKS ==
    [question |-> <<"I'd love to help with that!", " ...">>,
     chat |-> <<"Thanks for chatting!", " ...">>,
     scan |-> <<"I'll analyze that for you", " ...">>]

\* Keywords shorter than this are skipped by LocalLLM.generate.
MinKeywordLen == 3

\* `any(q in prompt_lower for q in [...])`: a substring test, which on the
\* words of the model's prompts (none holds one of these inside a longer
\* word) is a test of the words.
QuestionWords == {"what", "how", "why", "explain", "tell"}

\* The knowledge-base entries a prompt matches.
KbHits(prompt_lower) ==
    {i \in 1..Len(KNOWLEDGE_BASE) :
        \E j \in 1..Len(KNOWLEDGE_BASE[i].keywords) :
            /\ KNOWLEDGE_BASE[i].keywords[j].chars >= MinKeywordLen
            /\ ContainsWords(prompt_lower, KNOWLEDGE_BASE[i].keywords[j].words)}

\* Mutant of local_generate: nothing to say when no topic matches a chat
\* message.
local_generate_silent_chat(prompt) ==
    LET prompt_lower == Lower(prompt)
        hits == KbHits(prompt_lower)
    IN  IF hits # {}
        THEN KNOWLEDGE_BASE[CHOOSE i \in hits : \A j \in hits : i <= j].response
        ELSE IF \E i \in 1..Len(prompt_lower) : prompt_lower[i] \in QuestionWords
        THEN FALLBACKS.question
        ELSE <<>>

\* LocalLLM.generate (and chat, answer_security_question, which call it):
\* the response of the first knowledge-base entry with a matching keyword,
\* else the fallback text for a question or for chat.
local_generate(prompt) ==
    LET prompt_lower == Lower(prompt)
        hits == KbHits(prompt_lower)
    IN  IF hits # {}
        THEN KNOWLEDGE_BASE[CHOOSE i \in hits : \A j \in hits : i <= j].response
        ELSE IF \E i \in 1..Len(prompt_lower) : prompt_lower[i] \in QuestionWords
        THEN FALLBACKS.question
        ELSE FALLBACKS.chat

\* LocalLLM.explain_scan
local_explain_scan == None

\* ------------------------------------------------------------------------
\* LLMRouter (llm/llm_router.py)
\* ------------------------------------------------------------------------

\* LLMProvider values a router can prefer.
LLMProvider == {"claude", "gemini", "local", "auto"}

\* provider.is_available(): the remote clients exist or not, Local always is.
IsAvailable(avail, provider) == IF provider = "local" THEN TRUE ELSE avail[provider]

\* One provider invocation, for the record of a router call.
Invocation(provider, api, val) == [provider |-> provider, api |-> api, result |-> val]

\* Mutant of try_provider: a remote answer does not update _last_provider.
try_provider_forgets_last(avail, last, provider, prompt, api) ==
    IF provider \in Remotes /\ avail[provider]
    THEN LET r == provider_generate(avail[provider], provider, api)
         IN  [val |-> IF ~r.exc /\ Truthy(r.val) THEN r.val ELSE None,
              last |-> last,
              invoked |-> <<Invocation(provider, api, r.val)>>]
    ELSE IF provider = "local"
    THEN [val |-> local_generate(prompt), last |-> "local",
          invoked |-> <<Invocation("local", "text", local_generate(prompt))>>]
    ELSE [val |-> None, last |-> last, invoked |-> <<>>]

\* LLMRouter._try_provider: the response (None on failure, also when the
\* provider raised), _last_provider after it, and the invocation made.
try_provider(avail, last, provider, prompt, api) ==
    IF provider \in Remotes /\ avail[provider]
    THEN LET r == provider_generate(avail[provider], provider, api)
         IN  [val |-> IF ~r.exc /\ Truthy(r.val) THEN r.val ELSE None,
              last |-> IF ~r.exc /\ Truthy(r.val) THEN provider ELSE last,
              invoked |-> <<Invocation(provider, api, r.val)>>]
    ELSE IF provider = "local"
    THEN [val |-> local_generate(prompt), last |-> "local",
          invoked |-> <<Invocation("local", "text", local_generate(prompt))>>]
    ELSE [val |-> None, last |-> last, invoked |-> <<>>]

\* ------------------------------------------------------------------------
\* State
\* ------------------------------------------------------------------------

VARIABLES
    max_entries,    \* MemoryManager.max_entries
    store,          \* MemoryManager._store: normalized id -> ConversationContext
    hist,           \* history: every entry appended to a context since it was created
    lastCall,       \* history: what the last MemoryManager call was and removed
    nsaves,         \* save_memory calls so far
    preferred,      \* LLMRouter.preferred
    avail,          \* is_available() of the remote providers (a client exists)
    last_provider,  \* LLMRouter._last_provider
    rop,            \* the LLMRouter operation in progress, or "idle"
    rpc,            \* its position: the provider it is about to try
    prompt,         \* its prompt / question argument
    scan_result,    \* its scan_result argument
    calls,          \* history: the provider invocations it made, in order
    rresult,        \* the value it returns
    raised,         \* whether it raised to its caller
    last_before,    \* history: _last_provider when it was called
    tools,          \* SentriGateway.tools is set (not None)
    llm_router,     \* SentriGateway.llm_router is set (not None)
    stats,          \* SentriGateway._stats
    gpc,            \* position of the process_message call in progress, or "idle"
    request,        \* its arguments
    intent_result,  \* its intent_result
    context,        \* its context
    response,       \* its response (what _route_intent returned)
    error,          \* str(e) of the exception its except clause caught
    reply,          \* the GatewayResponse it returns
    saved,          \* history: the save_memory calls it made
    phases,         \* history: the steps of process_message the call has run
    \* The classifier and the scanners called on their own
    tool,           \* the unit called, "none" before the first call
    ncalls,         \* the calls made: 0, 1 or 2
    tin,            \* the input of the first call
    tout,           \* what the first call returned
    tin2,           \* the input of the second call
    tout2,          \* what the second call returned
    \* Two process_message calls in flight on one event loop
    tasks           \* per call: its position, its arguments and how it ended

memVars == <<max_entries, store, hist, lastCall, nsaves>>

routerVars == <<preferred, avail, last_provider, rop, rpc, prompt, scan_result, calls,
                rresult, raised, last_before>>

gwVars == <<tools, llm_router, stats, gpc, request, intent_result, context, response, error,
            reply, saved, phases>>

toolVars == <<tool, ncalls, tin, tout, tin2, tout2>>

taskVars == <<tasks>>

vars == <<memVars, routerVars, gwVars, toolVars, taskVars>>

\* ------------------------------------------------------------------------
\* Inputs
\* ------------------------------------------------------------------------

BaseIds == { <<"42">>, <<"web_", "42">> }

PrefixSet == {Prefixes[i] : i \in 1..Len(Prefixes)}

\* Every base id, bare and under each platform prefix.
RawIds == BaseIds \cup {<<p>> \o x : p \in PrefixSet, x \in BaseIds}

Platforms == {"web", "telegram"}

Digits == <<"0", "1", "2", "3", "4", "5", "6", "7", "8", "9">>

\* The user message and the assistant reply of the n-th turn saved: every
\* turn has its own text, so entries can be told apart.
MessageOf(n) == <<"m", Digits[n + 1]>>

ReplyOf(n) == <<"r", Digits[n + 1]>>

IntentArgs == {None, <<"help">>}

NoCall == [op |-> "other", key |-> <<>>, removed |-> 0, summary_before |-> <<>>]

\* ------------------------------------------------------------------------
\* IntentRouter (agent_gateway/intent_router.py)
\* ------------------------------------------------------------------------

\* The substrings of a token that URL_PATTERN matches: a full URL, or the
\* domain inside a mail address.
UrlsOf(token) ==
    CASE token = "https://a.b/c" -> <<"https://a.b/c">>
      [] token = "bob@evil.com" -> <<"evil.com">>
      [] OTHER -> <<>>

\* IntentRouter.extract_urls: every match, in order of occurrence (none of
\* the tokens above is a version number or a file extension, which the
\* filter drops).
RECURSIVE extract_urls(_)
extract_urls(message) ==
    IF message = <<>> THEN <<>>
    ELSE UrlsOf(Head(message)) \o extract_urls(Tail(message))

\* A regular expression of the router: one of the phrases `first`; when
\* `then` is not empty, followed somewhere later by one of its words
\* (\bfirst\b.*\b(then)\b); when `rest`, followed by at least one more token
\* (first\s*.+); when `anchored`, the phrase is the whole text up to
\* trailing punctuation (^(first)[\s!?.]*$).
Pattern(first, then) == [first |-> first, then |-> then, rest |-> FALSE, anchored |-> FALSE]

PatternRest(first) == [first |-> first, then |-> {}, rest |-> TRUE, anchored |-> FALSE]

PatternAnchored(first) == [first |-> first, then |-> {}, rest |-> FALSE, anchored |-> TRUE]

\* The single words ws as one-word phrases.
Words(ws) == {<<w>> : w \in ws}

\* The two-word phrases a b.
Pairs(as, bs) == {<<a, b>> : a \in as, b \in bs}

PhraseAt(text, i, phrase) ==
    /\ i + Len(phrase) - 1 <= Len(text)
    /\ \A j \in 1..Len(phrase) : text[i + j - 1] = phrase[j]

\* re.search(pattern, text)
Search(pattern, text) ==
    \E phrase \in pattern.first :
        IF pattern.anchored
        THEN /\ PhraseAt(text, 1, phrase)
             /\ \A j \in (Len(phrase) + 1)..Len(text) : text[j] \in {"!", "?", "."}
        ELSE \E i \in 1..Len(text) :
                /\ PhraseAt(text, i, phrase)
                /\ pattern.then # {} =>
                    \E j \in (i + Len(phrase))..Len(text) : text[j] \in pattern.then
                /\ pattern.rest => i + Len(phrase) <= Len(text)

\* Tokens that are a mail address, a date, a time of day, an IPv4 address, a
\* text ending in a year.
AddressTokens == {"bob@evil.com"}

DateTokens == {"2024-01-15"}

TimeTokens == {"10:23:45"}

IpTokens == {"10.0.0.5"}

\* IntentRouter._looks_like_email: its indicators.
email_indicators ==
    { Pattern(Pairs({"from:"}, AddressTokens), {}),
      Pattern(Pairs({"to:"}, AddressTokens), {}),
      PatternRest({<<"subject:">>}),
      Pattern(Pairs({"cc:"}, AddressTokens), {}),
      Pattern({<<"sent:">>}, DateTokens),
      Pattern(Pairs({"dear"}, {"user", "customer", "sir", "madam", "valued"}), {}),
      Pattern(Pairs({"click"}, {"here", "below"}) \cup {<<"click", "the", "link">>}, {}),
      Pattern({<<"verify", "your", w>> : w \in {"account", "email", "identity"}}, {}),
      Pattern(Pairs({"urgent"}, {"action", "response", "attention"}), {}) }

\* IntentRouter._looks_like_logs: its indicators.
log_indicators ==
    { Pattern(Words(DateTokens), {}),
      Pattern(Words(TimeTokens), {}),
      Pattern(Words({"error", "warn", "info", "debug", "critical"}), {}),
      Pattern(Pairs({"ip:", "address:"}, IpTokens), {}),
      Pattern(Words({"failed", "denied", "blocked", "rejected"}), {}),
      Pattern(Pairs({"login", "auth", "access"}, {"attempt", "failure"}), {}) }

\* match_count >= 2
MinIndicators == 2

\* _looks_like_email content with a single indicator.
looks_like_email_single_indicator(message_lower) ==
    Cardinality({p \in email_indicators : Search(p, message_lower)}) >= 1

looks_like_email(message_lower) ==
    Cardinality({p \in email_indicators : Search(p, message_lower)}) >= MinIndicators

looks_like_logs(message_lower) ==
    Cardinality({p \in log_indicators : Search(p, message_lower)}) >= MinIndicators

\* IntentRouter.INTENT_PATTERNS, in the order of the dictionary.
INTENT_PATTERNS ==
    << [intent |-> "scan_link", patterns |->
          { Pattern(Words({"scan"}), {"link", "url", "website", "site"}),
            Pattern(Words({"check"}), {"link", "url", "website", "site"}),
            Pattern(Words({"is"}), {"safe", "secure", "legit", "legitimate"}),
            Pattern(Words({"verify"}), {"link", "url"}) }],
       [intent |-> "scan_email", patterns |->
          { Pattern(Words({"scan", "check", "phishing", "analyze", "suspicious"}), {"email"}),
            Pattern(Words({"email"}), {"scan"}) }],
       [intent |-> "scan_logs", patterns |->
          { Pattern(Words({"scan", "check", "analyze", "review"}), {"log", "logs"}),
            Pattern(Words({"log", "logs"}), {"scan"}) }],
       [intent |-> "guardian_status", patterns |->
          { Pattern(Words({"status", "guardian"}), {}),
            Pattern(Words({"system"}), {"status"}),
            Pattern(Words({"how"}), {"sentri"}),
            Pattern(Words({"health"}), {"check"}) }],
       [intent |-> "help", patterns |->
          { Pattern(Words({"help", "commands", "features"}), {}),
            Pattern({<<"what", "can", "you">>, <<"what", "do", "you">>, <<"how", "to">>}, {}) }],
       [intent |-> "greeting", patterns |->
          { PatternAnchored(Words({"hi", "hello", "hey", "greetings"})
                            \cup Pairs({"good"}, {"morning", "afternoon", "evening"})),
            PatternAnchored(Pairs({"hi", "hello", "hey"}, {"there", "sentri", "bot"})) }],
       [intent |-> "security_question", patterns |->
          { Pattern({<<"what", "is">>},
                    {"phishing", "malware", "ransomware", "virus", "trojan", "security"}),
            Pattern(Pairs({"how"}, {"to", "do"}), {"protect", "secure", "prevent", "avoid"}),
            Pattern(Words({"explain"}), {"security", "attack", "threat"}),
            Pattern(Words({"tip", "tips"}), {"security", "safety", "protection"}),
            Pattern(Words({"password", "auth", "authentication", "2fa", "mfa"}), {}),
            Pattern(Words({"cyber", "security", "threat", "attack", "vulnerability"}), {}) }] >>

\* IntentRouter.SECURITY_KEYWORDS
SECURITY_KEYWORDS ==
    {"phishing", "malware", "ransomware", "virus", "trojan", "hack", "security", "threat",
     "attack", "vulnerability", "breach", "password", "authentication", "2fa", "mfa",
     "firewall", "encryption", "ssl", "https", "certificate", "scam", "fraud"}

\* IntentResult: the intent, the confidence in percent, and the "urls" of
\* extracted_data (the one key the gateway reads).
IntentResult(intent, confidence, urls) ==
    [intent |-> intent, confidence |-> confidence, urls |-> urls]

NoIntent == IntentResult("unknown", 0, <<>>)

\* IntentRouter.detect_intent. message.lower() raises on a message that is
\* not a string.
detect_intent(message) ==
    IF message = None
    THEN [val |-> NoIntent, exc |-> TRUE]
    ELSE LET message_lower == Lower(message)
             urls == extract_urls(message)
             hits == {k \in 1..Len(INTENT_PATTERNS) :
                        \E p \in INTENT_PATTERNS[k].patterns : Search(p, message_lower)}
             intent == INTENT_PATTERNS[CHOOSE k \in hits : \A j \in hits : k <= j].intent
         IN  Value(
             IF urls # <<>> THEN IntentResult("scan_link", 95, urls)
             ELSE IF looks_like_email(message_lower) THEN IntentResult("scan_email", 90, <<>>)
             ELSE IF looks_like_logs(message_lower) THEN IntentResult("scan_logs", 85, <<>>)
             ELSE IF hits # {}
             THEN IntentResult(intent, 85, IF intent = "scan_link" THEN urls ELSE <<>>)
             ELSE IF \E i \in 1..Len(message_lower) : message_lower[i] \in SECURITY_KEYWORDS
             THEN IntentResult("security_question", 70, <<>>)
             ELSE IntentResult("general_chat", 50, <<>>))

\* ------------------------------------------------------------------------
\* ResponseBuilder (agent_gateway/response_builder.py)
\* ------------------------------------------------------------------------

\* FormattedResponse: text and intent (suggested actions and metadata are
\* fixed by the branch and not modelled).
FormattedResponse(text, intent, confidence) ==
    [text |-> text, intent |-> intent, confidence |-> confidence]

\* A scan result of the tools layer.
ScanResult(risk_level, signals) == [risk_level |-> risk_level, signals |-> signals]

NoScan == ScanResult("UNKNOWN", <<>>)

\* The intent of a scan type, and back.
ScanIntent(scan_type) ==
    CASE scan_type = "link" -> "scan_link"
      [] scan_type = "email" -> "scan_email"
      [] scan_type = "logs" -> "scan_logs"
      [] OTHER -> "unknown"

ScanType(intent) ==
    CASE intent = "scan_link" -> "link"
      [] intent = "scan_email" -> "email"
      [] OTHER -> "logs"

\* signals[:5]
SignalsShown == 5

\* ResponseBuilder.build_scan_response
build_scan_response(scan_type, result, llm_explanation) ==
    LET signals == result.signals
        parts == << <<scan_type, " Scan Result">>,
                    <<"**Risk Level:** ", result.risk_level>> >>
                 \o (IF Truthy(signals)
                     THEN << <<"**Detected Signals:**">> >>
                          \o [i \in 1..Len(PyTo(signals, SignalsShown)) |-> <<"* ", signals[i]>>]
                     ELSE <<>>)
                 \o (IF Truthy(llm_explanation)
                     THEN << <<"**Analysis:**">>, llm_explanation >>
                     ELSE <<>>)
    IN  FormattedResponse(Join(parts, "\n"), ScanIntent(scan_type), 95)

\* ResponseBuilder.build_chat_response
build_chat_response(llm_response, intent, confidence) ==
    FormattedResponse(llm_response, intent, confidence)

\* ResponseBuilder.build_status_response on the status _handle_status
\* assembles.
build_status_response(tools_set, llm_set, scans_performed) ==
    FormattedResponse(
        <<"**Sentri Guardian Status**",
          "tools: ", IF tools_set THEN "active" ELSE "not_configured",
          "llm: ", IF llm_set THEN "active" ELSE "not_configured",
          "Scans: ">> \o <<Digits[scans_performed + 1]>>,
        "guardian_status", 100)

\* ResponseBuilder.build_help_response
build_help_response == FormattedResponse(<<"**Sentri Help**", " ...">>, "help", 100)

\* ResponseBuilder.build_greeting_response
build_greeting_response(user_name) ==
    FormattedResponse(
        <<"Hello ">> \o (IF Truthy(user_name) THEN user_name ELSE <<"there">>)
            \o <<"!", " I'm **Sentri** ...">>,
        "greeting", 100)

\* The error response with the intent of the failed request's handler and no
\* suggested action.
build_error_response_bare(details) ==
    [text |-> <<"I encountered an issue processing your request. Please try again.">>,
     intent |-> "general_chat", confidence |-> 0, suggested_actions |-> <<>>]

\* ResponseBuilder.build_error_response("general", details), with the
\* suggested actions the gateway's except clause copies into its reply.
build_error_response(details) ==
    [text |-> <<"I encountered an issue processing your request. Please try again.">>
                  \o (IF Truthy(details) THEN <<"\n\nDetails: ">> \o details ELSE <<>>),
     intent |-> "unknown", confidence |-> 0,
     suggested_actions |-> <<"Try again", "Get help">>]

\* len(response.text) > 500 / response.text[:500] for the mobile platform
MobileCut == 500

\* ResponseBuilder.format_for_platform
format_for_platform(resp, platform) ==
    IF platform = "mobile" /\ Len(resp.text) > MobileCut
    THEN [resp EXCEPT !.text = PyTo(resp.text, MobileCut) \o <<"...">>]
    ELSE resp

\* ------------------------------------------------------------------------
\* SentriGateway handlers' fixed replies (agent_gateway/gateway.py)
\* ------------------------------------------------------------------------

\* _handle_scan_link without a URL
NoUrlReply ==
    FormattedResponse(<<"Please provide a URL to scan. Just paste the link!">>, "scan_link", 50)

\* The reply of a scan handler whose tools are missing or failed.
ToolsUnavailableReply(scan_type, urls) ==
    FormattedResponse(
        IF scan_type = "link"
        THEN <<"Analyzing link: ", urls[1], "\n\nScan tools temporarily unavailable.">>
        ELSE <<scan_type, " scan tools temporarily unavailable.">>,
        ScanIntent(scan_type), 70)

\* The reply of a chat handler whose LLM is missing or failed.
LlmUnavailableReply(intent) ==
    FormattedResponse(
        IF intent = "security_question"
        THEN <<"I'd love to answer your security question, but my AI is temporarily offline.">>
        ELSE <<"I'm here to help with security!", " ...">>,
        intent, 50)

\* Intent values.
Intents ==
    {"scan_link", "scan_email", "scan_logs", "guardian_status", "security_question",
     "general_chat", "help", "greeting", "unknown"}

\* The metadata argument of process_message: None, a dict carrying a
\* username, or a value that is no dict.
Metadata(type, username) == [type |-> type, username |-> username]

MetadataArgs ==
    { Metadata("NoneType", None), Metadata("dict", <<"alice">>), Metadata("str", None) }

\* The message argument of process_message: one text per branch of the
\* gateway, and None (a platform update that carries no text).
GatewayMessages ==
    { <<"hello">>, <<"help">>, <<"status">>, <<"What", "is", "Phishing", "?">>,
      <<"nice", "weather">>, <<"check", "https://a.b/c">>, <<"scan", "this", "link">>,
      <<"check", "this", "email">>, <<"scan", "my", "logs">>, None }

GatewayUsers == { <<"42">> }

Request(user_id, message, platform, metadata) ==
    [user_id |-> user_id, message |-> message, platform |-> platform, metadata |-> metadata]

\* The process_message calls of the model: every message from the web
\* channel without metadata, and the greeting from each platform with each
\* metadata.
GatewayRequests ==
    {Request(u, m, "web", Metadata("NoneType", None)) : u \in GatewayUsers, m \in GatewayMessages}
    \cup {Request(u, <<"hello">>, p, md) : u \in GatewayUsers, p \in Platforms, md \in MetadataArgs}

\* What a scanner of the tools layer returns.
ScanResults == { ScanResult("HIGH", <<"suspicious_tld">>), ScanResult("SAFE", <<>>) }

\* What a caller of LLMRouter.explain_scan can pass as scan_result: also a
\* dict whose "signals" is None.
ScanResultArgs == ScanResults \cup { ScanResult("HIGH", None) }

NoRequest == Request(<<>>, <<>>, "web", Metadata("NoneType", None))

NoResponse == FormattedResponse(<<>>, "unknown", 0)

\* ------------------------------------------------------------------------
\* MemoryManager operations as actions
\* ------------------------------------------------------------------------

MemInit ==
    /\ max_entries \in 0..MaxCap
    /\ store = << >>
    /\ hist = << >>
    /\ lastCall = NoCall
    /\ nsaves = 0

\* The history after a call that left the store as st and appended `added`
\* to the context of key k.
HistAfter(st, k, added) ==
    [x \in DOMAIN st |->
        (IF x \in DOMAIN hist THEN hist[x] ELSE <<>>) \o (IF x = k THEN added ELSE <<>>)]

\* save_memory calls for the context of key k since it was created.
Turns(k) == Len(hist[k]) \div 2

\* One save_memory call with these arguments.
SaveMemoryCall(user_id, m, r, platform, intent) ==
    LET k == normalize_user_id(user_id, platform)
        before == load_memory(store, user_id, platform)[k]
    IN  /\ store' = save_memory(store, max_entries, user_id, m, r, platform, intent)
        /\ hist' = HistAfter(store', k, << MemoryEntry("user", m, platform, intent),
                                            MemoryEntry("assistant", r, platform, intent) >>)
        /\ lastCall' = [op |-> "save_memory", key |-> k,
                        removed |-> Len(before.entries) + 2 - Len(store'[k].entries),
                        summary_before |-> before.summary]
        /\ nsaves' = nsaves + 1

SaveMemory ==
    /\ nsaves < MaxSaves
    /\ \E user_id \in RawIds, platform \in Platforms, intent \in IntentArgs :
        SaveMemoryCall(user_id, MessageOf(nsaves), ReplyOf(nsaves), platform, intent)
    /\ UNCHANGED max_entries

GetContextString ==
    /\ \E user_id \in RawIds, platform \in Platforms :
        LET k == normalize_user_id(user_id, platform)
        IN  /\ store' = load_memory(store, user_id, platform)
            /\ hist' = HistAfter(store', k, <<>>)
            /\ lastCall' = NoCall
    /\ UNCHANGED <<max_entries, nsaves>>

GetUserStats ==
    /\ \E user_id \in RawIds, platform \in Platforms :
        LET k == normalize_user_id(user_id, platform)
        IN  /\ store' = load_memory(store, user_id, platform)
            /\ hist' = HistAfter(store', k, <<>>)
            /\ lastCall' = NoCall
    /\ UNCHANGED <<max_entries, nsaves>>

ClearMemory ==
    /\ \E user_id \in RawIds, platform \in Platforms :
        LET k == normalize_user_id(user_id, platform)
        IN  /\ store' = clear_memory(store, user_id, platform)
            /\ hist' = [x \in DOMAIN store' |-> hist[x]]
            /\ lastCall' = [NoCall EXCEPT !.op = "clear_memory", !.key = k]
    /\ UNCHANGED <<max_entries, nsaves>>

\* ------------------------------------------------------------------------
\* LLMRouter operations as actions, one step per provider tried
\* ------------------------------------------------------------------------

Prompts == { <<"What", "is", "Phishing", "?">>, <<"how", "are", "you">>, <<"nice", "weather">> }

\* LLMRouter.__init__: the preferred provider and which remote clients exist.
RouterInit ==
    /\ preferred \in LLMProvider
    /\ avail \in [Remotes -> BOOLEAN]
    /\ last_provider = NoProvider
    /\ rop = "idle"
    /\ rpc = "idle"
    /\ prompt = <<>>
    /\ scan_result = NoScan
    /\ calls = <<>>
    /\ rresult = None
    /\ raised = FALSE
    /\ last_before = NoProvider

\* A caller enters operation op with prompt p and scan result sr.
RouterBegin(op, first, p, sr) ==
    /\ rop = "idle"
    /\ rop' = op
    /\ rpc' = first
    /\ prompt' = p
    /\ scan_result' = sr
    /\ calls' = <<>>
    /\ rresult' = None
    /\ raised' = FALSE
    /\ last_before' = last_provider
    /\ UNCHANGED <<preferred, avail, last_provider>>

CallGenerate == \E p \in Prompts : RouterBegin("generate", "preferred", p, NoScan)

CallAnswer ==
    \E p \in Prompts : RouterBegin("answer_security_question", "preferred", p, NoScan)

CallExplain == \E sr \in ScanResultArgs : RouterBegin("explain_scan", "claude", <<>>, sr)

\* generate: `response = await self._try_provider(provider, ...)` followed
\* by `if response: return response`; otherwise on to `next`.
GenTry(provider, next) ==
    \E api \in ApiOutcomes :
        LET t == try_provider(avail, last_provider, provider, prompt, api)
        IN  /\ calls' = calls \o t.invoked
            /\ last_provider' = t.last
            /\ IF Truthy(t.val)
               THEN rresult' = t.val /\ rpc' = "return"
               ELSE rresult' = rresult /\ rpc' = next

\* Nothing is tried at this position.
Skip(next) ==
    /\ rpc' = next
    /\ UNCHANGED <<calls, last_provider, rresult>>

\* generate, lines 113-119: the preferred provider first, unless AUTO.
GenPreferred ==
    /\ rop = "generate" /\ rpc = "preferred"
    /\ IF preferred # "auto" THEN GenTry(preferred, "claude") ELSE Skip("claude")
    /\ UNCHANGED <<preferred, avail, rop, prompt, scan_result, raised, last_before>>

\* generate, lines 122-126
GenClaude ==
    /\ rop = "generate" /\ rpc = "claude"
    /\ IF avail["claude"] THEN GenTry("claude", "gemini") ELSE Skip("gemini")
    /\ UNCHANGED <<preferred, avail, rop, prompt, scan_result, raised, last_before>>

\* Mutant of GenGemini: Gemini is never tried.
GenGemini_skipped ==
    /\ rop = "generate" /\ rpc = "gemini"
    /\ Skip("local")
    /\ UNCHANGED <<preferred, avail, rop, prompt, scan_result, raised, last_before>>

\* generate, lines 128-132
GenGemini ==
    /\ rop = "generate" /\ rpc = "gemini"
    /\ IF avail["gemini"] THEN GenTry("gemini", "local") ELSE Skip("local")
    /\ UNCHANGED <<preferred, avail, rop, prompt, scan_result, raised, last_before>>

\* generate, lines 134-137: the Local knowledge base
GenLocal ==
    /\ rop = "generate" /\ rpc = "local"
    /\ last_provider' = "local"
    /\ calls' = Append(calls, Invocation("local", "text", local_generate(prompt)))
    /\ rresult' = local_generate(prompt)
    /\ rpc' = "return"
    /\ UNCHANGED <<preferred, avail, rop, prompt, scan_result, raised, last_before>>

\* answer_security_question / explain_scan: `response = await
\* provider.<method>(...)` with no try around it, then `if response:` record
\* the provider and return; otherwise on to `next`.
Direct(provider, r, api, next) ==
    /\ calls' = Append(calls, Invocation(provider, api, r.val))
    /\ IF r.exc
       THEN raised' = TRUE /\ rpc' = "return" /\ UNCHANGED <<last_provider, rresult>>
       ELSE /\ raised' = raised
            /\ IF Truthy(r.val)
               THEN last_provider' = provider /\ rresult' = r.val /\ rpc' = "return"
               ELSE rpc' = next /\ UNCHANGED <<last_provider, rresult>>

\* provider.answer_security_question of the provider _get_provider names.
AnswerOf(provider, api) ==
    IF provider = "local" THEN Value(local_generate(prompt))
    ELSE provider_answer_security_question(avail[provider], provider, api)

\* answer_security_question, lines 180-186
AnsPreferred ==
    /\ rop = "answer_security_question" /\ rpc = "preferred"
    /\ IF preferred # "auto" /\ IsAvailable(avail, preferred)
       THEN \E api \in ApiOutcomes :
                Direct(preferred, AnswerOf(preferred, api), api, "claude")
       ELSE Skip("claude") /\ UNCHANGED raised
    /\ UNCHANGED <<preferred, avail, rop, prompt, scan_result, last_before>>

\* answer_security_question, lines 189-193
AnsClaude ==
    /\ rop = "answer_security_question" /\ rpc = "claude"
    /\ IF avail["claude"]
       THEN \E api \in ApiOutcomes : Direct("claude", AnswerOf("claude", api), api, "gemini")
       ELSE Skip("gemini") /\ UNCHANGED raised
    /\ UNCHANGED <<preferred, avail, rop, prompt, scan_result, last_before>>

\* answer_security_question, lines 195-199
AnsGemini ==
    /\ rop = "answer_security_question" /\ rpc = "gemini"
    /\ IF avail["gemini"]
       THEN \E api \in ApiOutcomes : Direct("gemini", AnswerOf("gemini", api), api, "local")
       ELSE Skip("local") /\ UNCHANGED raised
    /\ UNCHANGED <<preferred, avail, rop, prompt, scan_result, last_before>>

\* answer_security_question, lines 201-202
AnsLocal ==
    /\ rop = "answer_security_question" /\ rpc = "local"
    /\ last_provider' = "local"
    /\ calls' = Append(calls, Invocation("local", "text", local_generate(prompt)))
    /\ rresult' = local_generate(prompt)
    /\ rpc' = "return"
    /\ UNCHANGED <<preferred, avail, rop, prompt, scan_result, raised, last_before>>

\* explain_scan, lines 216-220
ExpClaude ==
    /\ rop = "explain_scan" /\ rpc = "claude"
    /\ IF avail["claude"]
       THEN \E api \in ApiOutcomes :
                Direct("claude", provider_explain_scan(avail["claude"], "claude", api,
                                                       scan_result),
                       api, "gemini")
       ELSE Skip("gemini") /\ UNCHANGED raised
    /\ UNCHANGED <<preferred, avail, rop, prompt, scan_result, last_before>>

\* explain_scan, lines 223-227
ExpGemini ==
    /\ rop = "explain_scan" /\ rpc = "gemini"
    /\ IF avail["gemini"]
       THEN \E api \in ApiOutcomes :
                Direct("gemini", provider_explain_scan(avail["gemini"], "gemini", api,
                                                       scan_result),
                       api, "none")
       ELSE Skip("none") /\ UNCHANGED raised
    /\ UNCHANGED <<preferred, avail, rop, prompt, scan_result, last_before>>

\* explain_scan, lines 229-230: Local adds no explanation
ExpNone ==
    /\ rop = "explain_scan" /\ rpc = "none"
    /\ rresult' = None
    /\ rpc' = "return"
    /\ UNCHANGED <<preferred, avail, last_provider, rop, prompt, scan_result, calls, raised,
                   last_before>>

\* The operation is over: its arguments, locals and result are gone.
RouterEnd ==
    /\ rop' = "idle"
    /\ rpc' = "idle"
    /\ prompt' = <<>>
    /\ scan_result' = NoScan
    /\ calls' = <<>>
    /\ rresult' = None
    /\ raised' = FALSE
    /\ last_before' = NoProvider
    /\ UNCHANGED <<preferred, avail, last_provider>>

\* The operation hands its result (or its exception) to the caller.
RouterReturn ==
    /\ rpc = "return"
    /\ RouterEnd

RouterStep ==
    \/ GenPreferred \/ GenClaude \/ GenGemini \/ GenLocal
    \/ AnsPreferred \/ AnsClaude \/ AnsGemini \/ AnsLocal
    \/ ExpClaude \/ ExpGemini \/ ExpNone

\* ------------------------------------------------------------------------
\* SentriGateway.process_message as actions, one step per phase
\* ------------------------------------------------------------------------

\* SentriGateway.__init__: tools and llm_router are set or None; the
\* statistics start at zero.
GatewayInit ==
    /\ tools \in BOOLEAN
    /\ llm_router \in BOOLEAN
    /\ stats = [total_messages |-> 0, scans_performed |-> 0, intents |-> [i \in Intents |-> 0]]
    /\ gpc = "idle"
    /\ request = NoRequest
    /\ intent_result = NoIntent
    /\ context = <<>>
    /\ response = NoResponse
    /\ error = <<>>
    /\ reply = NoResponse
    /\ saved = <<>>
    /\ phases = <<>>

\* process_message is entered, lines 119-140.
ProcessMessage ==
    /\ gpc = "idle"
    /\ stats.total_messages < MaxMessages
    /\ request' \in GatewayRequests
    /\ stats' = [stats EXCEPT !.total_messages = @ + 1]
    /\ gpc' = "detect"
    /\ UNCHANGED <<tools, llm_router, intent_result, context, response, error, reply, saved,
                   phases, memVars, routerVars>>

\* Step 1, lines 143-150: detect the intent and count it.
DetectIntent ==
    /\ gpc = "detect"
    /\ LET r == detect_intent(request.message)
       IN  IF r.exc
           THEN /\ error' = <<"'NoneType' object has no attribute 'lower'">>
                /\ gpc' = "except"
                /\ UNCHANGED <<intent_result, stats>>
           ELSE /\ intent_result' = r.val
                /\ stats' = [stats EXCEPT !.intents[r.val.intent] = @ + 1]
                /\ gpc' = "load"
                /\ UNCHANGED error
    /\ phases' = Append(phases, "classify")
    /\ UNCHANGED <<tools, llm_router, request, context, response, reply, saved, memVars,
                   routerVars>>

\* Step 2 with the message being processed added to the context.
LoadMemory_with_message ==
    /\ gpc = "load"
    /\ LET k == normalize_user_id(request.user_id, request.platform)
       IN  /\ context' = get_context_string(store, request.user_id, request.platform,
                                            DefaultMaxTurns)
                             \o <<"\n", "User: ">> \o request.message
           /\ store' = load_memory(store, request.user_id, request.platform)
           /\ hist' = HistAfter(store', k, <<>>)
           /\ lastCall' = NoCall
    /\ gpc' = "route"
    /\ UNCHANGED <<max_entries, nsaves, tools, llm_router, stats, request, intent_result,
                   response, error, reply, saved, phases, routerVars>>

\* Step 2, line 153: load the memory.
LoadMemory ==
    /\ gpc = "load"
    /\ LET k == normalize_user_id(request.user_id, request.platform)
       IN  /\ context' = get_context_string(store, request.user_id, request.platform,
                                            DefaultMaxTurns)
           /\ store' = load_memory(store, request.user_id, request.platform)
           /\ hist' = HistAfter(store', k, <<>>)
           /\ lastCall' = NoCall
    /\ gpc' = "route"
    /\ UNCHANGED <<max_entries, nsaves, tools, llm_router, stats, request, intent_result,
                   response, error, reply, saved, phases, routerVars>>

\* The handler's response goes to formatting without being saved.
Respond_unsaved(r) ==
    /\ response' = r
    /\ gpc' = "format"
    /\ UNCHANGED <<routerVars, error>>

\* The handler returns response r.
Respond(r) ==
    /\ response' = r
    /\ gpc' = "save"
    /\ UNCHANGED <<routerVars, error>>

\* The handler awaits an operation of the LLM router.
AskRouter(op, first, p, sr) ==
    /\ RouterBegin(op, first, p, sr)
    /\ gpc' = "handler"
    /\ UNCHANGED <<response, error>>

\* _route_intent raises.
Fails(detail) ==
    /\ error' = detail
    /\ gpc' = "except"
    /\ UNCHANGED <<routerVars, response>>

\* The scan handlers with no except clause around the scanner call: its
\* exception leaves the handler.
HandleScan_uncaught ==
    LET scan_type == ScanType(intent_result.intent)
        urls == IF intent_result.urls # <<>> THEN intent_result.urls
                ELSE extract_urls(request.message)
    IN  /\ stats' = [stats EXCEPT !.scans_performed = @ + 1]
        /\ IF scan_type = "link" /\ urls = <<>>
           THEN Respond(NoUrlReply) /\ phases' = phases \o <<"scan_branch">>
           ELSE IF tools
           THEN \E scanned \in BOOLEAN, r \in ScanResults :
                    IF ~scanned
                    THEN /\ Fails(<<"scanner error">>)
                         /\ phases' = phases \o <<"scan_branch", "scanner", "scanner_raised">>
                    ELSE /\ phases' = phases \o <<"scan_branch", "scanner">>
                         /\ IF llm_router THEN AskRouter("explain_scan", "claude", <<>>, r)
                            ELSE Respond(build_scan_response(scan_type, r, None))
           ELSE Respond(ToolsUnavailableReply(scan_type, urls))
                /\ phases' = phases \o <<"scan_branch">>

\* _handle_scan_link, _handle_scan_email, _handle_scan_logs up to the call
\* of the LLM router: the scan counts, the tool (when set) scans or raises,
\* and the handler's except clause answers a scanner that raised.
HandleScan ==
    LET scan_type == ScanType(intent_result.intent)
        urls == IF intent_result.urls # <<>> THEN intent_result.urls
                ELSE extract_urls(request.message)
    IN  /\ stats' = [stats EXCEPT !.scans_performed = @ + 1]
        /\ IF scan_type = "link" /\ urls = <<>>
           THEN Respond(NoUrlReply) /\ phases' = phases \o <<"scan_branch">>
           ELSE IF tools
           THEN \E scanned \in BOOLEAN, r \in ScanResults :
                    IF ~scanned
                    THEN /\ Respond(ToolsUnavailableReply(scan_type, urls))
                         /\ phases' = phases \o <<"scan_branch", "scanner", "scanner_raised">>
                    ELSE /\ phases' = phases \o <<"scan_branch", "scanner">>
                         /\ IF llm_router THEN AskRouter("explain_scan", "claude", <<>>, r)
                            ELSE Respond(build_scan_response(scan_type, r, None))
           ELSE Respond(ToolsUnavailableReply(scan_type, urls))
                /\ phases' = phases \o <<"scan_branch">>

\* _handle_security_question / _handle_general_chat up to the call of the
\* LLM router.
HandleChat(intent, op) ==
    IF llm_router
    THEN AskRouter(op, "preferred", request.message, NoScan)
    ELSE Respond(LlmUnavailableReply(intent))

\* `metadata.get("username") if metadata else None`, lines 256-258.
HandleGreeting ==
    LET metadata == request.metadata
    IN  IF metadata.type = "str"
        THEN Fails(<<"'str' object has no attribute 'get'">>)
        ELSE Respond(build_greeting_response(
                        IF metadata.type = "dict" THEN metadata.username ELSE None))

\* Step 3, _route_intent: the handler of the intent, up to its return or to
\* its call of the LLM router.
RouteIntent ==
    /\ gpc = "route"
    /\ LET intent == intent_result.intent
       IN  IF intent \in {"scan_link", "scan_email", "scan_logs"}
           THEN HandleScan
           ELSE /\ UNCHANGED stats
                /\ phases' = Append(phases, "chat_branch")
                /\ IF intent = "guardian_status"
                   THEN Respond(build_status_response(tools, llm_router, stats.scans_performed))
                   ELSE IF intent = "help" THEN Respond(build_help_response)
                   ELSE IF intent = "greeting" THEN HandleGreeting
                   ELSE IF intent = "security_question"
                   THEN HandleChat("security_question", "answer_security_question")
                   ELSE HandleChat("general_chat", "generate")
    /\ UNCHANGED <<tools, llm_router, request, intent_result, context, reply, saved, memVars>>

\* The LLM router has returned (or raised) to the handler that awaited it:
\* the handler builds its response; its except clause answers with the
\* fixed reply.
HandlerResume ==
    /\ gpc = "handler"
    /\ rpc = "return"
    /\ LET intent == intent_result.intent
           urls == IF intent_result.urls # <<>> THEN intent_result.urls
                   ELSE extract_urls(request.message)
       IN  response' =
               IF rop = "explain_scan"
               THEN IF raised THEN ToolsUnavailableReply(ScanType(intent), urls)
                    ELSE build_scan_response(ScanType(intent), scan_result, rresult)
               ELSE IF raised THEN LlmUnavailableReply(intent)
                    ELSE build_chat_response(rresult, intent,
                                             IF intent = "security_question" THEN 85 ELSE 70)
    /\ RouterEnd
    /\ gpc' = "save"
    /\ UNCHANGED <<tools, llm_router, stats, request, intent_result, context, error, reply,
                   saved, phases, memVars>>

\* Step 4, lines 166-173: save the turn.
SaveToMemory ==
    /\ gpc = "save"
    /\ SaveMemoryCall(request.user_id, request.message, response.text, request.platform,
                      <<intent_result.intent>>)
    /\ saved' = Append(saved, [user_message |-> request.message,
                               assistant_reply |-> response.text])
    /\ phases' = Append(phases, "save")
    /\ gpc' = "format"
    /\ UNCHANGED <<max_entries, tools, llm_router, stats, request, intent_result, context,
                   response, error, reply, routerVars>>

\* Step 5, lines 176-193: format for the platform.
FormatResponse ==
    /\ gpc = "format"
    /\ reply' = format_for_platform(response, request.platform)
    /\ phases' = Append(phases, "format")
    /\ gpc' = "return"
    /\ UNCHANGED <<tools, llm_router, stats, request, intent_result, context, response, error,
                   saved, memVars, routerVars>>

\* The except clause, lines 195-203: the error response.
HandleError ==
    /\ gpc = "except"
    /\ reply' = build_error_response(error)
    /\ gpc' = "return"
    /\ UNCHANGED <<tools, llm_router, stats, request, intent_result, context, response, error,
                   saved, phases, memVars, routerVars>>

\* process_message returns the reply to the channel: the call is over, its
\* arguments and locals are gone.
ReturnReply ==
    /\ gpc = "return"
    /\ gpc' = "idle"
    /\ request' = NoRequest
    /\ intent_result' = NoIntent
    /\ context' = <<>>
    /\ response' = NoResponse
    /\ error' = <<>>
    /\ reply' = NoResponse
    /\ saved' = <<>>
    /\ phases' = <<>>
    /\ UNCHANGED <<tools, llm_router, stats, memVars, routerVars>>

\* ------------------------------------------------------------------------
\* Tools layer: LinkScanner (tools/risk_link.py)
\* ------------------------------------------------------------------------

\* A URL text: its scheme prefix ("" when the text has none), the labels of
\* its host between the dots, the segments of its path, its length in
\* characters, and whether urlparse accepts it. Labels and segments are whole words of the scanner's
\* lists, so a substring test of the code is a membership test here.
Url(scheme, domain, path, length, parses) ==
    [scheme |-> scheme, domain |-> domain, path |-> path, length |-> length,
     parses |-> parses]

\* LinkScanner.SUSPICIOUS_TLDS
SUSPICIOUS_TLDS == {"xyz", "tk", "ml", "ga", "cf", "gq", "top", "buzz", "club"}

\* LinkScanner.TRUSTED_DOMAINS
TRUSTED_DOMAINS ==
    { <<d, "com">> : d \in {"google", "microsoft", "apple", "amazon", "github", "linkedin",
                            "facebook", "twitter", "youtube", "netflix", "paypal", "stripe"} }

\* LinkScanner.BRAND_TYPOS: the typos of every brand.
BRAND_TYPOS ==
    {"g00gle", "googel", "gogle", "paypai", "paypa1", "paypol", "paypall", "amaz0n",
     "amazom", "arnazon", "amazonn", "micros0ft", "mircosoft", "microsft", "app1e", "aple"}

\* Numeric host labels: four of them make an IPv4 address.
Octets == {"10", "0", "5"}

\* LinkScanner.PHISHING_PATTERNS: one of the five expressions is found in
\* the URL.
PHISHING_PATTERNS(url) ==
    LET d == url.domain
        words == {d[i] : i \in 1..Len(d)} \cup {url.path[i] : i \in 1..Len(url.path)}
    IN  \/ \E i \in 1..(Len(d) - 1) :
              d[i] \in {"login", "signin", "verify", "account", "secure", "update", "confirm"}
        \/ \E i \in 2..(Len(d) - 1) : d[i] \in {"com-secure", "net-secure", "org-secure"}
        \/ \E i \in 1..Len(d) :
              /\ d[i] \in {"paypal", "amazon", "google", "microsoft", "apple", "netflix", "bank"}
              /\ \E j \in (i + 1)..Len(d) : d[j] \in {"xyz", "tk", "ml"}
        \/ \E i \in 1..(Len(d) - 3) : \A j \in i..(i + 3) : d[j] \in Octets
        \/ words \cap {"free", "win", "gift", "prize", "claim", "urgent", "limited"} # {}

\* LinkScanner.scan up to its risk level: the signals and the sum of their
\* points. A text without scheme is given http://.
LinkScanner_score(url) ==
    LET domain == url.domain
        https == url.scheme = "https://"
        tld == Len(domain) > 0 /\ domain[Len(domain)] \in SUSPICIOUS_TLDS
        typosquat == \E i \in 1..Len(domain) : domain[i] \in BRAND_TYPOS
        ip == Len(domain) >= 4 /\ \A j \in 1..4 : domain[j] \in Octets
        keyword == \E i \in 1..Len(url.path) :
                      url.path[i] \in {"login", "verify", "secure", "account", "update",
                                       "confirm", "password"}
        subdomain_count == (IF Len(domain) > 0 THEN Len(domain) - 1 ELSE 0) - 1
        trusted == Len(domain) >= 2 /\ PyFrom(domain, -2) \in TRUSTED_DOMAINS
        check(hit, signal, points) ==
            IF hit THEN [signals |-> <<signal>>, risk_score |-> points]
            ELSE [signals |-> <<>>, risk_score |-> 0]
        checks == << check(~https, "No HTTPS", 15),
                     check(tld, "Suspicious TLD", 25),
                     check(PHISHING_PATTERNS(url), "Phishing pattern detected", 30),
                     check(typosquat, "Possible typosquatting", 40),
                     check(ip, "IP address used as domain", 35),
                     check(keyword, "Suspicious keyword in path", 10),
                     check(subdomain_count > 2, "Excessive subdomains", 15) >>
        sum[i \in 0..Len(checks)] ==
            IF i = 0 THEN [signals |-> <<>>, risk_score |-> 0]
            ELSE [signals |-> sum[i - 1].signals \o checks[i].signals,
                  risk_score |-> sum[i - 1].risk_score + checks[i].risk_score]
        total == sum[Len(checks)]
    IN  IF ~url.parses
        THEN [signals |-> <<"URL parsing error">>, risk_score |-> 20]
        ELSE IF trusted
        THEN [signals |-> Append(total.signals, "Trusted domain"),
              risk_score |-> Max(0, total.risk_score - 30)]
        ELSE total

\* _calculate_risk_level with the cut points excluded from their bands.
LinkScanner_calculate_risk_level_strict(score) ==
    IF score > 70 THEN "CRITICAL"
    ELSE IF score > 50 THEN "HIGH"
    ELSE IF score > 30 THEN "MEDIUM"
    ELSE IF score > 0 THEN "LOW"
    ELSE "SAFE"

\* LinkScanner._calculate_risk_level
LinkScanner_calculate_risk_level(score) ==
    IF score >= 70 THEN "CRITICAL"
    ELSE IF score >= 50 THEN "HIGH"
    ELSE IF score >= 30 THEN "MEDIUM"
    ELSE IF score > 0 THEN "LOW"
    ELSE "SAFE"

\* LinkScanner.scan: the level is computed from the sum, the score returned
\* is min(100, sum); _generate_verdict and _get_recommended_action look the
\* level up.
LinkScanner_scan(url) ==
    LET s == LinkScanner_score(url)
        risk_level == LinkScanner_calculate_risk_level(s.risk_score)
        verdicts == [CRITICAL |-> "DANGEROUS - Do NOT visit this URL",
                     HIGH |-> "SUSPICIOUS - High risk of phishing/malware",
                     MEDIUM |-> "CAUTION - Some concerning indicators detected",
                     LOW |-> "MINOR CONCERNS - Proceed with caution",
                     SAFE |-> "APPEARS SAFE - No major threats detected"]
        actions == [CRITICAL |-> "Do NOT click or visit. Report as phishing.",
                    HIGH |-> "Avoid visiting. Verify through official channels.",
                    MEDIUM |-> "Exercise caution. Verify the sender if received via message.",
                    LOW |-> "Safe to visit but stay alert for suspicious activity.",
                    SAFE |-> "No action needed - URL appears legitimate."]
    IN  [risk_score |-> Min(100, s.risk_score), risk_level |-> risk_level,
         verdict |-> <<verdicts[risk_level]>>, signals |-> s.signals,
         recommended_action |-> actions[risk_level]]

\* ------------------------------------------------------------------------
\* Tools layer: EmailScanner (tools/risk_email.py)
\* ------------------------------------------------------------------------

\* The phrases of the model's mails that EmailScanner.PHISHING_PHRASES
\* finds, one expression each.
PHISHING_PHRASES ==
    { <<"act", "now">>, <<"click", "here">>, <<"verify", "your", "account">>,
      <<"reset", "your", "password">>, <<"wire", "transfer">>, <<"payment", "failed">>,
      <<"invoice", "attached">>, <<"limited", "time">> }

\* The phrases of the model's mails among
\* EmailScanner.SOCIAL_ENGINEERING_KEYWORDS.
SOCIAL_ENGINEERING_KEYWORDS ==
    { <<"dear", "user">>, <<"we", "have", "noticed">>, <<"within", "24", "hours">> }

\* min(100, risk_score) with the residue of the sum instead of the cap.
cap_score_wrapping(risk_score) == risk_score % 101

\* "Cap the score": risk_score = min(100, risk_score) in EmailScanner.scan
\* and LogsScanner.scan.
cap_score(risk_score) == Min(100, risk_score)

\* EmailScanner.scan up to the cap: the signals (one per hit) and the sum
\* of their points, checks 1 to 8 in order.
EmailScanner_score(content) ==
    LET content_lower == Lower(content)
        has(phrases) == \E ph \in phrases : ContainsWords(content_lower, ph)
        n_phrases == Cardinality({ph \in PHISHING_PHRASES : ContainsWords(content_lower, ph)})
        n_social == Cardinality({k \in SOCIAL_ENGINEERING_KEYWORDS :
                                    ContainsWords(content_lower, k)})
        n_urls == Cardinality({i \in 1..Len(content) : content[i] = "http://amaz0n.xyz/login"})
        urgency == \/ has({<<"!", "!">>, <<"urgent">>, <<"important">>, <<"alert">>})
                   \/ has({<<"within", "24", "hours">>})
        spoofed == has({<<"from:", "support@paypal-secure.xyz">>})
        attachment == has({<<"attached", "file">>, <<"see", "attached">>})
        sensitive == has({<<"password">>, <<"credit", "card">>, <<"bank", "account">>})
        grammar == has({<<"kindly", "do", "the", "needful">>})
        reps(n, signal) == [i \in 1..n |-> signal]
        flag(hit, signal) == IF hit THEN <<signal>> ELSE <<>>
        pts(hit, points) == IF hit THEN points ELSE 0
    IN  [signals |-> reps(n_phrases, "Phishing phrase") \o reps(n_social, "Social engineering")
                      \o reps(n_urls, "Suspicious URL")
                      \o flag(urgency, "High urgency language detected")
                      \o flag(spoofed, "Potentially spoofed sender domain")
                      \o flag(attachment, "Suspicious attachment reference")
                      \o flag(sensitive, "Request for sensitive information")
                      \o flag(grammar, "Grammatical errors typical of phishing"),
         risk_score |-> 15 * n_phrases + 10 * n_social + 20 * n_urls + pts(urgency, 15)
                          + pts(spoofed, 30) + pts(attachment, 15) + pts(sensitive, 25)
                          + pts(grammar, 10)]

\* EmailScanner._calculate_risk_level
EmailScanner_calculate_risk_level(score) ==
    IF score >= 60 THEN "CRITICAL"
    ELSE IF score >= 40 THEN "HIGH"
    ELSE IF score >= 20 THEN "MEDIUM"
    ELSE IF score > 0 THEN "LOW"
    ELSE "SAFE"

\* EmailScanner.scan: the sum is capped at 100 before the level is
\* computed; the verdict names the level and the number of signals; at
\* most ten signals are returned.
EmailScanner_scan(content) ==
    LET s == EmailScanner_score(content)
        risk_score == cap_score(s.risk_score)
        risk_level == EmailScanner_calculate_risk_level(risk_score)
        verdicts == [CRITICAL |-> "PHISHING DETECTED - red flags found",
                     HIGH |-> "LIKELY PHISHING - suspicious indicators",
                     MEDIUM |-> "SUSPICIOUS - concerning elements",
                     LOW |-> "MINOR CONCERNS - small issues",
                     SAFE |-> "APPEARS LEGITIMATE - No phishing indicators found"]
        actions == [CRITICAL |-> "Do NOT click any links. Report as phishing and delete.",
                    HIGH |-> "Do not interact. Verify sender through official channels.",
                    MEDIUM |-> "Exercise caution. Verify before clicking any links.",
                    LOW |-> "Probably safe but verify sender if unexpected.",
                    SAFE |-> "Email appears legitimate - no action needed."]
    IN  [risk_score |-> risk_score, risk_level |-> risk_level,
         verdict |-> IF risk_level = "SAFE" THEN <<verdicts[risk_level]>>
                     ELSE <<verdicts[risk_level], Len(s.signals)>>,
         signals |-> PyTo(s.signals, 10),
         recommended_action |-> actions[risk_level]]

\* ------------------------------------------------------------------------
\* Tools layer: LogsScanner (tools/risk_logs.py)
\* ------------------------------------------------------------------------

\* LogsScanner.THREAT_PATTERNS, in order: the phrases an expression finds
\* in a line, its threat type and its points.
ThreatPattern(phrases, threat_type, score) ==
    [phrases |-> phrases, threat_type |-> threat_type, score |-> score]

THREAT_PATTERNS ==
    << ThreatPattern(Pairs({"failed", "invalid"}, {"login", "auth", "password", "authentication"}),
                     "auth_failure", 15),
       ThreatPattern({<<"denied">>}, "access_denied", 10),
       ThreatPattern(Pairs({"unauthorized"}, {"access", "attempt"}), "unauthorized", 20),
       ThreatPattern({<<"sql", "injection">>}, "sql_injection", 30),
       ThreatPattern({<<"xss">>}, "xss_attack", 25),
       ThreatPattern({<<"brute", "force">>, <<"multiple", "failed">>}, "brute_force", 25),
       ThreatPattern({<<"ddos">>, <<"dos", "attack">>}, "dos_attack", 30),
       ThreatPattern(Words({"malware", "virus", "trojan", "ransomware"}), "malware", 35),
       ThreatPattern(Pairs({"suspicious", "malicious"}, {"file", "activity", "process"}),
                     "suspicious_activity", 20),
       ThreatPattern({<<"port", "scan">>}, "port_scan", 20),
       ThreatPattern(Pairs({"intrusion", "breach"}, {"detected", "attempt"}), "intrusion", 30),
       ThreatPattern(Pairs({"critical", "severe"}, {"error"}), "critical_error", 15),
       ThreatPattern(Pairs({"service", "system"}, {"crash", "failure"}), "system_failure", 15) >>

\* The addresses LogsScanner.IP_PATTERN finds in the model's lines.
LogIps == {"10.0.0.5", "10.0.0.6"}

\* LogsScanner.scan up to the cap, for the lines of logs.strip().split('\n')
\* (one empty line when the text is empty): the signals (a tuple each, the
\* text with the address and the count it names), the sum of the
\* points, the number of lines per threat type and of occurrences per
\* address. The model has fewer than five addresses, so most_common(5)
\* holds them all.
LogsScanner_score(logs) ==
    LET lines == IF logs = <<>> THEN << <<>> >> ELSE logs
        K == Len(THREAT_PATTERNS)
        hit(i, k) == \E ph \in THREAT_PATTERNS[k].phrases : ContainsWords(Lower(lines[i]), ph)
        count(k) == Cardinality({i \in 1..Len(lines) : hit(i, k)})
        first(k) == CHOOSE i \in 1..Len(lines) : hit(i, k) /\ \A j \in 1..(i - 1) : ~hit(j, k)
        \* threat types in the order of their first line, then of the list
        order == {k \in 1..K : count(k) > 0}
        before(a, b) == first(a) < first(b) \/ (first(a) = first(b) /\ a < b)
        rank(k) == Cardinality({a \in order : before(a, k)}) + 1
        threat_signals == [r \in 1..Cardinality(order) |->
                              <<THREAT_PATTERNS[CHOOSE k \in order : rank(k) = r].threat_type>>]
        sum[k \in 0..K] == IF k = 0 THEN 0 ELSE sum[k - 1] + count(k) * THREAT_PATTERNS[k].score
        ip_counts == [ip \in LogIps |->
                        Cardinality(UNION {{<<i, j>> : j \in {j \in 1..Len(lines[i]) :
                                                                  lines[i][j] = ip}} :
                                           i \in 1..Len(lines)})]
        busy == {ip \in LogIps : ip_counts[ip] >= 5}
        \* most_common: by count, ties in the order of first occurrence
        seen(ip) == CHOOSE i \in 1..Len(lines) : \E j \in 1..Len(lines[i]) : lines[i][j] = ip
        ahead(a, b) == \/ ip_counts[a] > ip_counts[b]
                       \/ ip_counts[a] = ip_counts[b] /\ seen(a) < seen(b)
        ip_signals == [r \in 1..Cardinality(busy) |->
                          LET ip == CHOOSE a \in busy :
                                        Cardinality({b \in busy : ahead(b, a)}) = r - 1
                          IN  <<"Multiple events from IP", ip, ip_counts[ip]>>]
        failed_logins == count(1)
        flag(c, signal) == IF c THEN <<signal>> ELSE <<>>
    IN  [signals |-> threat_signals \o ip_signals
                      \o flag(failed_logins >= 5, <<"High failed login count", failed_logins>>)
                      \o flag(failed_logins >= 10, <<"Possible brute force attack detected">>),
         risk_score |-> sum[K] + 20 * Cardinality(busy)
                          + (IF failed_logins >= 5 THEN 15 ELSE 0)
                          + (IF failed_logins >= 10 THEN 25 ELSE 0),
         threats |-> {THREAT_PATTERNS[k].threat_type : k \in order},
         total_threats |-> Cardinality({<<i, k>> \in (1..Len(lines)) \X (1..K) : hit(i, k)}),
         suspicious_ips |-> {ip \in LogIps : ip_counts[ip] >= 3}]

\* LogsScanner._calculate_risk_level
LogsScanner_calculate_risk_level(score) ==
    IF score >= 70 THEN "CRITICAL"
    ELSE IF score >= 50 THEN "HIGH"
    ELSE IF score >= 30 THEN "MEDIUM"
    ELSE IF score > 0 THEN "LOW"
    ELSE "SAFE"

\* LogsScanner.scan: the sum is capped at 100 before the level is computed;
\* the verdict names the level and the number of events;
\* _get_recommended_action goes by the threat types found, then the level.
LogsScanner_scan(logs) ==
    LET s == LogsScanner_score(logs)
        risk_score == cap_score(s.risk_score)
        risk_level == LogsScanner_calculate_risk_level(risk_score)
        verdicts == [CRITICAL |-> "CRITICAL THREATS - security events requiring immediate attention",
                     HIGH |-> "HIGH RISK - concerning security events detected",
                     MEDIUM |-> "MODERATE - events warrant investigation",
                     LOW |-> "LOW RISK - minor events detected",
                     SAFE |-> "CLEAN - No significant security events found"]
    IN  [risk_score |-> risk_score, risk_level |-> risk_level,
         verdict |-> IF risk_level = "SAFE" THEN <<verdicts[risk_level]>>
                     ELSE <<verdicts[risk_level], s.total_threats>>,
         signals |-> PyTo(s.signals, 10),
         suspicious_ips |-> s.suspicious_ips,
         recommended_action |->
            IF s.threats \cap {"intrusion", "malware"} # {}
            THEN "IMMEDIATE: Isolate affected systems, initiate incident response."
            ELSE IF s.threats \cap {"brute_force", "sql_injection"} # {}
            THEN "HIGH: Block suspicious IPs, review access controls, check for compromise."
            ELSE IF "auth_failure" \in s.threats
            THEN "Review failed login attempts, consider account lockout policies."
            ELSE IF risk_level \in {"CRITICAL", "HIGH"}
            THEN "Investigate flagged events immediately, consider security team escalation."
            ELSE IF risk_level = "MEDIUM"
            THEN "Monitor situation, investigate if pattern continues."
            ELSE "Continue normal monitoring - no immediate action required."]

\* ------------------------------------------------------------------------
\* Risk engine (services/risk_engine.py) and the security stub
\* (tools/security/stub.py)
\* ------------------------------------------------------------------------

\* _get_level_verdict(score, "link")
get_level_verdict(score) ==
    IF score >= 70 THEN [level |-> "HIGH", verdict |-> "Phishing / Credential Harvesting"]
    ELSE IF score >= 40
    THEN [level |-> "MEDIUM", verdict |-> "Suspicious - Verify Before Proceeding"]
    ELSE [level |-> "LOW", verdict |-> "No Significant Risk Detected"]

\* analyze_link: LINK_PATTERNS are searched in the whole lower-cased URL.
analyze_link(url) ==
    LET d == url.domain
        words == {d[i] : i \in 1..Len(d)} \cup {url.path[i] : i \in 1..Len(url.path)}
        lookalike == words \cap {"amazon", "amaz0n", "paypal", "paypa1", "google", "g00gle",
                                 "microsoft", "micros0ft", "apple", "app1e", "netflix",
                                 "netf1ix", "facebook", "faceb00k", "linkedin", "1inkedin"} # {}
        keyword_count == Cardinality(words \cap {"login", "verify", "account", "secure",
                                                "update", "confirm", "suspend", "unlock",
                                                "password", "credential"})
        tld == /\ url.path = <<>>
               /\ Len(d) > 1
               /\ d[Len(d)] \in {"xyz", "top", "work", "click", "loan", "racing", "win",
                                 "bid", "stream"}
        dots == IF Len(d) > 0 THEN Len(d) - 1 ELSE 0
        path == \E i \in 1..Len(url.path) :
                   url.path[i] \in {"login", "signin", "verify", "secure", "account", "bank",
                                    "payment", "invoice"}
        finding(hit, text, points) ==
            IF hit THEN [findings |-> <<text>>, score |-> points]
            ELSE [findings |-> <<>>, score |-> 0]
        checks == << finding(lookalike, "Lookalike domain detected (brand impersonation)", 40),
                     finding(keyword_count >= 2, "Multiple suspicious keywords in URL", 25),
                     finding(keyword_count = 1, "Suspicious keyword in URL path", 10),
                     finding(tld, "Suspicious top-level domain", 20),
                     finding(dots > 3, "Excessive subdomains (obfuscation technique)", 15),
                     finding(url.length > 100, "Unusually long URL", 10),
                     finding(path, "Suspicious URL path pattern", 15),
                     finding(url.scheme = "http://", "Insecure HTTP connection (no HTTPS)", 15) >>
        sum[i \in 0..Len(checks)] ==
            IF i = 0 THEN [findings |-> <<>>, score |-> 0]
            ELSE [findings |-> sum[i - 1].findings \o checks[i].findings,
                  score |-> sum[i - 1].score + checks[i].score]
        score == Min(sum[Len(checks)].score, 100)
        lv == get_level_verdict(score)
    IN  [risk_score |-> score, risk_level |-> lv.level, verdict |-> <<lv.verdict>>,
         signals |-> sum[Len(checks)].findings,
         recommended_action |->
            LET action(hit, text) == IF hit THEN <<text>> ELSE <<>>
                actions == action(lookalike, "Do not enter credentials")
                           \o action(keyword_count >= 2, "Verify via official website directly")
                           \o action(tld, "Avoid entering sensitive information")
                           \o action(url.scheme = "http://",
                                     "Never enter credentials on HTTP pages")
            IN  IF actions # <<>> THEN actions
                ELSE IF score < 30 THEN <<"Link appears safe to visit">>
                ELSE <<"Verify vendor via official contact",
                       "Report to IT security if suspicious">>]

\* random.uniform(-0.5, 0.5) in tenths of a point, after round(.., 1).
Jitter == -5..5

\* security_stub_scan(intent, text) for one draw of the random jitter; the
\* scores are in tenths of a point (base_score 1.0 is 10). The level and the
\* verdict go by the base score, the score returned carries the jitter.
security_stub_scan(text, jitter) ==
    LET text_lower == Lower(text)
        has(phrases) == \E ph \in phrases : ContainsWords(text_lower, ph)
        flag(hit, signal) == IF hit THEN <<signal>> ELSE <<>>
        signals == flag(has(Words({"urgent", "immediately"})
                            \cup {<<"account", "suspended">>, <<"verify", "now">>}),
                        "Urgency tactics detected")
                   \o flag(has(Words({"http://amaz0n.xyz/login", "https://a.b/c"})),
                           "Contains external link")
                   \o flag(has(Words({"password", "credential", "login"})),
                           "Credential harvesting keywords")
                   \o flag(has(Words({"payment", "invoice"})), "Financial request")
        base_score == CASE Len(signals) = 0 -> 10
                        [] Len(signals) = 1 -> 35
                        [] Len(signals) = 2 -> 60
                        [] OTHER -> 85 + Len(signals) * 2
    IN  [risk_score |-> Min(100, base_score + jitter),
         risk_level |-> IF base_score < 30 THEN "LOW"
                        ELSE IF base_score < 70 THEN "MEDIUM" ELSE "HIGH",
         verdict |-> <<IF base_score < 30 THEN "SAFE"
                       ELSE IF base_score < 70 THEN "SUSPICIOUS" ELSE "MALICIOUS">>,
         signals |-> signals,
         recommended_action |-> IF base_score < 30 THEN "No action needed"
                                ELSE "Verify sender identity out-of-band"]

\* ------------------------------------------------------------------------
\* Calls of the classifier and of the scanners
\* ------------------------------------------------------------------------

\* Lines repeated in one log text.
MaxRepeat == 10

\* The empty text given as a URL.
EmptyUrl == Url("", <<>>, <<>>, 0, TRUE)

\* The URL texts of the model: hosts that are plain, trusted, typosquatted,
\* a brand under a suspicious TLD, an address, many subdomains; with and
\* without scheme and path, short and longer than 100 characters; the empty
\* text, and a text urlparse rejects.
Urls ==
    { Url(s, d, p, n, TRUE) :
        s \in {"", "http://", "https://"},
        d \in { <<"example", "com">>, <<"google", "com">>, <<"mail", "google", "com">>,
                <<"amaz0n", "xyz">>, <<"paypal", "xyz">>, <<"login", "example", "com">>,
                <<"10", "0", "0", "5">>, <<"a", "b", "c", "d", "example", "com">>,
                <<"free", "example", "club">> },
        p \in {<<>>, <<"login">>},
        n \in {30, 120} }
    \cup { EmptyUrl, Url("http://", <<"[bad">>, <<>>, 11, FALSE) }

\* Pieces of mail text, and the mails of the model: up to two pieces.
MailPieces ==
    { <<>>, <<"hello">>, <<"click", "here">>, <<"dear", "user">>,
      <<"reset", "your", "password">>, <<"from:", "support@paypal-secure.xyz">>,
      <<"http://amaz0n.xyz/login">>, <<"urgent">>, <<"within", "24", "hours">>,
      <<"see", "attached">>, <<"invoice", "attached">>, <<"kindly", "do", "the", "needful">>,
      <<"act", "now", "click", "here", "wire", "transfer", "payment", "failed", "limited",
        "time">> }

Mails == { a \o b : a, b \in MailPieces }

\* Log lines, and the log texts of the model: a line repeated, then
\* possibly one more line.
LogLines ==
    { <<"user", "logged", "in">>, <<"failed", "login", "from", "10.0.0.5">>,
      <<"multiple", "failed", "login">>, <<"connection", "from", "10.0.0.6">> }

Logs ==
    { [i \in 1..n |-> a] \o b :
        a \in LogLines, n \in 0..MaxRepeat,
        b \in { <<>>, << <<"malware", "detected">> >> } }

\* The messages given to the classifier.
IntentMessages ==
    (GatewayMessages \ {None})
    \cup { <<>>, <<"phishing">>, <<"dear", "customer", "click", "here">>,
           <<"dear", "customer", "click", "here", "https://a.b/c">>,
           <<"from:", "bob@evil.com", "subject:", "hi">>,
           <<"from:", "bob@evil.com", "to:", "bob@evil.com">>,
           <<"subject:", "hi", "dear", "customer">>, <<"click", "here">>,
           <<"2024-01-15", "10:23:45", "error", "login", "failed">>,
           <<"error", "failed", "login", "attempt", "https://a.b/c">> }

\* The callable units and the inputs of each.
ToolInputs ==
    [ detect_intent |-> IntentMessages, LinkScanner |-> Urls, EmailScanner |-> Mails,
      LogsScanner |-> Logs, analyze_link |-> Urls, security_stub_scan |-> MailPieces ]

\* What a call of the unit on input x can return: one value, but for the
\* stub, whose score takes a random jitter.
ToolResults(unit, x) ==
    CASE unit = "detect_intent" -> {detect_intent(x)}
      [] unit = "LinkScanner" -> {LinkScanner_scan(x)}
      [] unit = "EmailScanner" -> {EmailScanner_scan(x)}
      [] unit = "LogsScanner" -> {LogsScanner_scan(x)}
      [] unit = "analyze_link" -> {analyze_link(x)}
      [] unit = "security_stub_scan" -> {security_stub_scan(x, j) : j \in Jitter}

NoInput == <<"<no input>">>

NoOutput == [risk_score |-> 0, risk_level |-> "", verdict |-> <<>>, signals |-> <<>>,
             recommended_action |-> ""]

ToolsInit ==
    /\ tool = "none"
    /\ ncalls = 0
    /\ tin = NoInput
    /\ tout = NoOutput
    /\ tin2 = NoInput
    /\ tout2 = NoOutput

\* A first call of the unit.
ToolCall(unit) ==
    /\ ncalls = 0
    /\ tool' = unit
    /\ ncalls' = 1
    /\ \E x \in ToolInputs[unit] :
          /\ tin' = x
          /\ tout' \in ToolResults(unit, x)
    /\ UNCHANGED <<tin2, tout2>>

\* IntentRouter.detect_intent(message)
Classify == ToolCall("detect_intent")

\* ToolsManager.scan_link(url): LinkScanner.scan
ScanLink == ToolCall("LinkScanner")

\* ToolsManager.scan_email(content): EmailScanner.scan
ScanEmail == ToolCall("EmailScanner")

\* ToolsManager.scan_logs(logs): LogsScanner.scan
ScanLogs == ToolCall("LogsScanner")

\* risk_engine.analyze_link(url)
AnalyzeLink == ToolCall("analyze_link")

\* security_stub_scan(intent, text)
SecurityStubScan == ToolCall("security_stub_scan")

\* A second call of the same unit, on the same or on another input.
CallAgain ==
    /\ ncalls = 1
    /\ ncalls' = 2
    /\ \E x \in ToolInputs[tool] :
          /\ tin2' = x
          /\ tout2' \in ToolResults(tool, x)
    /\ UNCHANGED <<tool, tin, tout>>

\* ------------------------------------------------------------------------
\* Two process_message calls of one gateway, interleaved at the await
\* ------------------------------------------------------------------------

Tasks == {1, 2}

\* The users of the two calls: one user under two raw ids, and another.
TaskUsers == { <<"42">>, <<"telegram_", "42">>, <<"43">> }

NoTask == [pc |-> "idle", request |-> NoRequest, intent |-> "unknown", seq |-> 0,
           failed |-> FALSE]

TasksInit == tasks = [c \in Tasks |-> NoTask]

\* The calls that are over.
Finished == {c \in Tasks : tasks[c].pc = "done"}

\* process_message from its entry to the await of _route_intent, lines
\* 140-156: the message is counted and classified and the context string
\* is read, which creates the user's context when there is none.
TaskBegin(c) ==
    /\ tasks[c].pc = "idle"
    /\ \E user_id \in TaskUsers, platform \in Platforms :
          LET message == MessageOf(c)
              intent == detect_intent(message).val.intent
              st == load_memory(store, user_id, platform)
          IN  /\ stats' = [stats EXCEPT !.total_messages = @ + 1, !.intents[intent] = @ + 1]
              /\ store' = st
              /\ hist' = HistAfter(st, normalize_user_id(user_id, platform), <<>>)
              /\ lastCall' = NoCall
              /\ tasks' = [tasks EXCEPT ![c] =
                             [pc |-> "route",
                              request |-> Request(user_id, message, platform,
                                                  Metadata("NoneType", None)),
                              intent |-> intent, seq |-> 0, failed |-> FALSE]]
    /\ UNCHANGED <<max_entries, nsaves, tools, llm_router, gpc, request, intent_result, context,
                   response, error, reply, saved, phases>>

\* _route_intent returned a response: lines 166-193 run to the return, and
\* save_memory stores the turn.
TaskResume(c) ==
    /\ tasks[c].pc = "route"
    /\ SaveMemoryCall(tasks[c].request.user_id, tasks[c].request.message, ReplyOf(c),
                      tasks[c].request.platform, <<tasks[c].intent>>)
    /\ tasks' = [tasks EXCEPT ![c].pc = "done", ![c].seq = Cardinality(Finished) + 1]
    /\ UNCHANGED <<max_entries, gwVars>>

\* _route_intent raised: the except clause, lines 195-203, returns the
\* error response.
TaskRaise(c) ==
    /\ tasks[c].pc = "route"
    /\ tasks' = [tasks EXCEPT ![c].pc = "done", ![c].seq = Cardinality(Finished) + 1,
                               ![c].failed = TRUE]
    /\ UNCHANGED <<memVars, gwVars>>

\* ------------------------------------------------------------------------
\* Spec: a MemoryManager under any sequence of its operations
\* ------------------------------------------------------------------------

\* No router call is made: the router stays as constructed.
RouterUnused ==
    /\ preferred = "auto"
    /\ avail = [p \in Remotes |-> FALSE]
    /\ last_provider = NoProvider
    /\ rop = "idle"
    /\ rpc = "idle"
    /\ prompt = <<>>
    /\ scan_result = NoScan
    /\ calls = <<>>
    /\ rresult = None
    /\ raised = FALSE
    /\ last_before = NoProvider

\* No message is processed: the gateway stays as constructed.
GatewayUnused ==
    /\ tools = FALSE
    /\ llm_router = FALSE
    /\ stats = [total_messages |-> 0, scans_performed |-> 0, intents |-> [i \in Intents |-> 0]]
    /\ gpc = "idle"
    /\ request = NoRequest
    /\ intent_result = NoIntent
    /\ context = <<>>
    /\ response = NoResponse
    /\ error = <<>>
    /\ reply = NoResponse
    /\ saved = <<>>
    /\ phases = <<>>

Init == TasksInit /\ MemInit /\ RouterUnused /\ GatewayUnused /\ ToolsInit

Next ==
    \/ SaveMemory /\ UNCHANGED <<routerVars, gwVars, toolVars, taskVars>>
    \/ GetContextString /\ UNCHANGED <<routerVars, gwVars, toolVars, taskVars>>
    \/ GetUserStats /\ UNCHANGED <<routerVars, gwVars, toolVars, taskVars>>
    \/ ClearMemory /\ UNCHANGED <<routerVars, gwVars, toolVars, taskVars>>

Spec == Init /\ [][Next]_vars

\* ------------------------------------------------------------------------
\* SpecRouter: an LLMRouter under any sequence of calls, one at a time
\* ------------------------------------------------------------------------

\* The memory is not used: it stays as constructed.
MemUnused ==
    /\ max_entries = DefaultMaxEntries
    /\ store = << >>
    /\ hist = << >>
    /\ lastCall = NoCall
    /\ nsaves = 0

InitRouter == TasksInit /\ RouterInit /\ MemUnused /\ GatewayUnused /\ ToolsInit

NextRouter ==
    \/ CallGenerate /\ UNCHANGED <<memVars, gwVars, toolVars, taskVars>>
    \/ CallAnswer /\ UNCHANGED <<memVars, gwVars, toolVars, taskVars>>
    \/ CallExplain /\ UNCHANGED <<memVars, gwVars, toolVars, taskVars>>
    \/ GenPreferred /\ UNCHANGED <<memVars, gwVars, toolVars, taskVars>>
    \/ GenClaude /\ UNCHANGED <<memVars, gwVars, toolVars, taskVars>>
    \/ GenGemini /\ UNCHANGED <<memVars, gwVars, toolVars, taskVars>>
    \/ GenLocal /\ UNCHANGED <<memVars, gwVars, toolVars, taskVars>>
    \/ AnsPreferred /\ UNCHANGED <<memVars, gwVars, toolVars, taskVars>>
    \/ AnsClaude /\ UNCHANGED <<memVars, gwVars, toolVars, taskVars>>
    \/ AnsGemini /\ UNCHANGED <<memVars, gwVars, toolVars, taskVars>>
    \/ AnsLocal /\ UNCHANGED <<memVars, gwVars, toolVars, taskVars>>
    \/ ExpClaude /\ UNCHANGED <<memVars, gwVars, toolVars, taskVars>>
    \/ ExpGemini /\ UNCHANGED <<memVars, gwVars, toolVars, taskVars>>
    \/ ExpNone /\ UNCHANGED <<memVars, gwVars, toolVars, taskVars>>
    \/ RouterReturn /\ UNCHANGED <<memVars, gwVars, toolVars, taskVars>>

SpecRouter == InitRouter /\ [][NextRouter]_vars

\* ------------------------------------------------------------------------
\* SpecGateway: a SentriGateway with its memory and LLM router, processing
\* one message at a time
\* ------------------------------------------------------------------------

\* MemoryManager() as the gateway constructs it.
GatewayMemory ==
    /\ max_entries = DefaultMaxEntries
    /\ store = << >>
    /\ hist = << >>
    /\ lastCall = NoCall
    /\ nsaves = 0

InitGateway == TasksInit /\ GatewayInit /\ GatewayMemory /\ RouterInit /\ ToolsInit

NextGateway ==
    \/ ProcessMessage /\ UNCHANGED <<toolVars, taskVars>>
    \/ DetectIntent /\ UNCHANGED <<toolVars, taskVars>>
    \/ LoadMemory /\ UNCHANGED <<toolVars, taskVars>>
    \/ RouteIntent /\ UNCHANGED <<toolVars, taskVars>>
    \/ GenPreferred /\ UNCHANGED <<memVars, gwVars, toolVars, taskVars>>
    \/ GenClaude /\ UNCHANGED <<memVars, gwVars, toolVars, taskVars>>
    \/ GenGemini /\ UNCHANGED <<memVars, gwVars, toolVars, taskVars>>
    \/ GenLocal /\ UNCHANGED <<memVars, gwVars, toolVars, taskVars>>
    \/ AnsPreferred /\ UNCHANGED <<memVars, gwVars, toolVars, taskVars>>
    \/ AnsClaude /\ UNCHANGED <<memVars, gwVars, toolVars, taskVars>>
    \/ AnsGemini /\ UNCHANGED <<memVars, gwVars, toolVars, taskVars>>
    \/ AnsLocal /\ UNCHANGED <<memVars, gwVars, toolVars, taskVars>>
    \/ ExpClaude /\ UNCHANGED <<memVars, gwVars, toolVars, taskVars>>
    \/ ExpGemini /\ UNCHANGED <<memVars, gwVars, toolVars, taskVars>>
    \/ ExpNone /\ UNCHANGED <<memVars, gwVars, toolVars, taskVars>>
    \/ HandlerResume /\ UNCHANGED <<toolVars, taskVars>>
    \/ SaveToMemory /\ UNCHANGED <<toolVars, taskVars>>
    \/ FormatResponse /\ UNCHANGED <<toolVars, taskVars>>
    \/ HandleError /\ UNCHANGED <<toolVars, taskVars>>
    \/ ReturnReply /\ UNCHANGED <<toolVars, taskVars>>

SpecGateway == InitGateway /\ [][NextGateway]_vars

\* ------------------------------------------------------------------------
\* SpecTools: the classifier and the scanners, each called once or twice
\* ------------------------------------------------------------------------

InitTools == ToolsInit /\ MemUnused /\ RouterUnused /\ GatewayUnused /\ TasksInit

NextTools ==
    \/ Classify /\ UNCHANGED <<memVars, routerVars, gwVars, taskVars>>
    \/ ScanLink /\ UNCHANGED <<memVars, routerVars, gwVars, taskVars>>
    \/ ScanEmail /\ UNCHANGED <<memVars, routerVars, gwVars, taskVars>>
    \/ ScanLogs /\ UNCHANGED <<memVars, routerVars, gwVars, taskVars>>
    \/ AnalyzeLink /\ UNCHANGED <<memVars, routerVars, gwVars, taskVars>>
    \/ SecurityStubScan /\ UNCHANGED <<memVars, routerVars, gwVars, taskVars>>
    \/ CallAgain /\ UNCHANGED <<memVars, routerVars, gwVars, taskVars>>

SpecTools == InitTools /\ [][NextTools]_vars

\* ------------------------------------------------------------------------
\* SpecTasks: two process_message calls of one gateway, in flight together
\* ------------------------------------------------------------------------

\* The gateway's memory manager: any positive max_entries.
TaskMemory ==
    /\ max_entries \in 1..MaxCap
    /\ store = << >>
    /\ hist = << >>
    /\ lastCall = NoCall
    /\ nsaves = 0

InitTasks == TasksInit /\ TaskMemory /\ RouterUnused /\ GatewayUnused /\ ToolsInit

NextTasks ==
    \/ TaskBegin(1) /\ UNCHANGED <<routerVars, toolVars>>
    \/ TaskBegin(2) /\ UNCHANGED <<routerVars, toolVars>>
    \/ TaskResume(1) /\ UNCHANGED <<routerVars, toolVars>>
    \/ TaskResume(2) /\ UNCHANGED <<routerVars, toolVars>>
    \/ TaskRaise(1) /\ UNCHANGED <<routerVars, toolVars>>
    \/ TaskRaise(2) /\ UNCHANGED <<routerVars, toolVars>>

SpecTasks == InitTasks /\ [][NextTasks]_vars

\* The context a raw user id addresses: empty when there is none.
Lookup(user_id) ==
    {store[k] : k \in {normalize_user_id(user_id, "web")} \cap DOMAIN store}

\* C1. Bounded history: a manager with max_entries >= 1 never stores a
\* context with more than max_entries entries, whatever operations ran.
C1_BoundedHistory ==
    max_entries >= 1 =>
        \A k \in DOMAIN store : Len(store[k].entries) <= max_entries

\* A save has just removed entries from a context of a manager with
\* max_entries >= 1, and the context is full.
C1_Witness ==
    /\ max_entries >= 1
    /\ lastCall.op = "save_memory"
    /\ lastCall.removed > 0
    /\ Len(store[lastCall.key].entries) = max_entries

\* C2. Trimming never silently drops history: a save_memory call that
\* removed entries changed the summary, and left it non-empty.
C2_NoSilentDrop ==
    (lastCall.op = "save_memory" /\ lastCall.removed > 0) =>
        /\ store[lastCall.key].summary # lastCall.summary_before
        /\ store[lastCall.key].summary # <<>>

\* C3. After more than max_entries turns saved for one user with no clear in
\* between (max_entries >= 1), the context holds exactly max_entries entries,
\* they are the most recent ones in order, and the summary is not empty.
C3_FullAfterManyTurns ==
    \A k \in DOMAIN store :
        (max_entries >= 1 /\ Turns(k) > max_entries) =>
            /\ Len(store[k].entries) = max_entries
            /\ store[k].entries = PyFrom(hist[k], Len(hist[k]) - max_entries)
            /\ store[k].summary # <<>>

\* C4. Cross-platform identity: an id X and X under any platform prefix
\* address the same context.
C4_CrossPlatformIdentity ==
    \A x \in BaseIds, p \in PrefixSet : Lookup(x) = Lookup(<<p>> \o x)

\* The priority order of generate: the preferred provider first when one is
\* set, then Claude, Gemini, Local.
PriorityOrder ==
    (IF preferred # "auto" THEN <<preferred>> ELSE <<>>) \o <<"claude", "gemini", "local">>

\* The providers of that order that are available.
AvailableOrder == SelectSeq(PriorityOrder, LAMBDA p : IsAvailable(avail, p))

\* The providers invoked so far by the operation in progress.
Invoked == [i \in 1..Len(calls) |-> calls[i].provider]

\* The i-th invocation failed: it raised inside the provider, or came back
\* empty.
Failed(i) == ~Truthy(calls[i].result)

\* C5. generate returns a non-empty string and does not raise, whatever the
\* remote providers do and whichever provider is preferred.
C5_GenerateNonEmpty ==
    (rop = "generate" /\ rpc = "return") => (~raised /\ Truthy(rresult))

\* generate has returned the Local answer after both remote providers were
\* tried and failed, one with an error and one with an empty answer.
C5_Witness ==
    /\ rop = "generate" /\ rpc = "return"
    /\ avail["claude"] /\ avail["gemini"]
    /\ calls[Len(calls)].provider = "local"
    /\ \E i, j \in 1..Len(calls) : calls[i].api = "error" /\ calls[j].api = "empty"
    /\ rresult = FALLBACKS.chat

\* C6. generate invokes the available providers one after the other in the
\* priority order, goes on only while the answers are empty or failed, and
\* returns the first non-empty answer with _last_provider naming the
\* provider that gave it.
C6_PriorityOrder ==
    rop = "generate" =>
        /\ Len(calls) <= Len(AvailableOrder)
        /\ Invoked = SubSeq(AvailableOrder, 1, Len(calls))
        /\ \A i \in 1..(Len(calls) - 1) : Failed(i)
        /\ rpc # "return" => \A i \in 1..Len(calls) : Failed(i)
        /\ rpc = "return" =>
            /\ Len(calls) >= 1
            /\ ~Failed(Len(calls))
            /\ rresult = calls[Len(calls)].result
            /\ last_provider = calls[Len(calls)].provider

\* generate has returned Gemini's answer on the second try of Gemini: as
\* preferred provider it failed, then Claude failed.
C6_Witness ==
    /\ rop = "generate" /\ rpc = "return"
    /\ preferred = "gemini"
    /\ Invoked = <<"gemini", "claude", "gemini">>
    /\ rresult = RemoteText("gemini")
    /\ last_before # "gemini"

\* Every remote provider has failed before the i-th invocation (or is not
\* available).
RemotesFailedBefore(i) ==
    \A r \in Remotes :
        ~avail[r] \/ \E j \in 1..(i - 1) : calls[j].provider = r /\ Failed(j)

\* C7 as stated. In generate and answer_security_question, for every
\* preferred provider, Local is invoked only after every remote provider
\* has failed.
C7_LocalOnlyAfterRemotes ==
    rop \in {"generate", "answer_security_question"} =>
        \A i \in 1..Len(calls) : calls[i].provider = "local" => RemotesFailedBefore(i)

\* C7 as amended. Unless Local is the preferred provider, Local is invoked
\* only after every remote provider has failed; when Local is preferred it
\* is invoked first and no remote provider is consulted.
C7_LocalLastUnlessPreferred ==
    rop \in {"generate", "answer_security_question"} =>
        IF preferred = "local"
        THEN \A i \in 1..Len(calls) : calls[i].provider = "local" /\ i = 1
        ELSE \A i \in 1..Len(calls) : calls[i].provider = "local" => RemotesFailedBefore(i)

\* answer_security_question reached Local after the preferred Claude and
\* Gemini both failed.
C7_Witness ==
    /\ rop = "answer_security_question" /\ rpc = "return"
    /\ preferred = "claude"
    /\ avail["claude"] /\ avail["gemini"]
    /\ calls[Len(calls)].provider = "local"

\* C8. No router operation raises to its caller: a provider call that
\* raises only advances the chain to the next provider.
C8_NeverRaises == ~raised

\* The available remote providers, Claude first.
RemoteOrder == SelectSeq(<<"claude", "gemini">>, LAMBDA p : avail[p])

\* C9. explain_scan consults only the available remote providers, Claude
\* then Gemini, and returns the first non-empty explanation with
\* _last_provider naming its provider; it returns None exactly when none of
\* them gave a non-empty explanation, and then leaves _last_provider as it
\* was; Local gives no explanation, is never invoked and _last_provider is
\* never set to local.
C9_ExplainRemoteOnly ==
    /\ local_explain_scan = None
    /\ rop = "explain_scan" =>
        /\ Len(calls) <= Len(RemoteOrder)
        /\ Invoked = SubSeq(RemoteOrder, 1, Len(calls))
        /\ \A i \in 1..(Len(calls) - 1) : Failed(i)
        /\ last_provider = "local" => last_before = "local"
        /\ rpc = "return" =>
            /\ (~raised /\ rresult = None) <=> (\A i \in 1..Len(calls) : Failed(i))
            /\ rresult # None =>
                /\ rresult = calls[Len(calls)].result
                /\ Truthy(rresult)
                /\ last_provider = calls[Len(calls)].provider
            /\ (~raised /\ rresult = None) =>
                (Len(calls) = Len(RemoteOrder) /\ last_provider = last_before)

\* C10. Every process_message call saves the turn: when it returns, on a
\* branch or on the failure path, save_memory has been called exactly once
\* in it, with the user's message and the reply text of the call.
C10_TurnSavedOnce ==
    gpc = "return" =>
        /\ Len(saved) = 1
        /\ saved[1] = [user_message |-> request.message, assistant_reply |-> reply.text]

\* A handler of the call caught an exception of its scanner or provider:
\* with the tools (the router) set, only the handler's except clause falls
\* through to the fixed unavailable reply.
HandlerCaught ==
    LET intent == intent_result.intent
        urls == IF intent_result.urls # <<>> THEN intent_result.urls
                ELSE extract_urls(request.message)
    IN  \/ /\ tools
           /\ intent \in {"scan_link", "scan_email", "scan_logs"}
           /\ intent = "scan_link" => urls # <<>>
           /\ response = ToolsUnavailableReply(ScanType(intent), urls)
        \/ /\ llm_router
           /\ intent \in {"security_question", "general_chat"}
           /\ response = LlmUnavailableReply(intent)

\* The degraded response: intent Unknown, confidence 0 and at least one
\* suggested action.
Degraded(r) ==
    /\ r.intent = "unknown"
    /\ r.confidence = 0
    /\ r.suggested_actions # <<>>

\* C11. process_message never raises to its caller: any exception in
\* classification, context loading, the scan or chat branch, persistence
\* or formatting yields the degraded response with intent Unknown,
\* confidence 0 and a non-empty list of suggested actions.
C11_AnyExceptionDegrades ==
    gpc = "return" => ((error # <<>> \/ HandlerCaught) => Degraded(reply))

\* C11 as amended. A call that was begun always comes to a reply; an
\* exception that reaches the except clause of process_message yields the
\* degraded response, and an exception of a scanner or provider call is
\* caught by the branch's own handler, whose fixed unavailable reply keeps
\* the classified intent and is saved and returned as a normal reply.
C11_EscapedExceptionDegrades ==
    /\ gpc = "return" =>
        /\ reply # NoResponse
        /\ error # <<>> => Degraded(reply)
        /\ (error = <<>> /\ HandlerCaught) =>
            /\ reply.intent = intent_result.intent
            /\ reply.text = response.text
            /\ Len(saved) = 1
    /\ gpc = "except" => error # <<>>

\* The greeting handler raised on a metadata that is no dict and the call
\* returns the degraded response.
C11_Witness ==
    /\ gpc = "return"
    /\ request.metadata.type = "str"
    /\ intent_result.intent = "greeting"
    /\ error # <<>>
    /\ Degraded(reply)

\* C12. In every process_message call that does not fail the steps run
\* once each in the order classify, one of scan branch or chat branch,
\* save_memory, format_for_platform, return: the reply is not returned
\* before save_memory is done, and a scanner is invoked only when the
\* classified intent is scan_link, scan_email or scan_logs.
C12_PhasesInOrder ==
    LET scan == intent_result.intent \in {"scan_link", "scan_email", "scan_logs"}
        scanners == SelectSeq(phases, LAMBDA ph : ph = "scanner")
    IN  /\ (gpc = "return" /\ error = <<>>) =>
            /\ SelectSeq(phases, LAMBDA ph : ph \notin {"scanner", "scanner_raised"})
                  = <<"classify", IF scan THEN "scan_branch" ELSE "chat_branch", "save", "format">>
            /\ Len(saved) = 1
            /\ reply = format_for_platform(response, request.platform)
        /\ Len(scanners) <= 1
        /\ \A i \in 1..Len(phases) :
               phases[i] = "scanner" => (i > 1 /\ phases[i - 1] = "scan_branch")
        /\ scanners # <<>> => scan

\* A link scan call returns: the scanner ran in the scan branch, the turn
\* was saved and the reply formatted.
C12_Witness ==
    /\ gpc = "return"
    /\ error = <<>>
    /\ intent_result.intent = "scan_link"
    /\ phases = <<"classify", "scan_branch", "scanner", "save", "format">>

\* The tokens of the model's messages that are a URL: a mail address is
\* none.
UrlTokens == {"https://a.b/c"}

\* C13. detect_intent is a first-match-wins decision list over the
\* message: a URL present gives scan_link at 0.95 whatever else the message
\* holds; else two or more email indicators give scan_email at 0.90; else
\* two or more log indicators give scan_logs at 0.85; else the first
\* matching intent of the pattern table at 0.85; else a security keyword
\* gives security_question at 0.70; else general_chat at 0.50. It never
\* raises and never returns unknown.
C13_DecisionList ==
    (tool = "detect_intent" /\ ncalls >= 1) =>
        LET lower == Lower(tin)
            table == {k \in 1..Len(INTENT_PATTERNS) :
                        \E p \in INTENT_PATTERNS[k].patterns : Search(p, lower)}
        IN  /\ ~tout.exc
            /\ tout.val.intent # "unknown"
            /\ <<tout.val.intent, tout.val.confidence>> =
                  IF \E i \in 1..Len(tin) : tin[i] \in UrlTokens THEN <<"scan_link", 95>>
                  ELSE IF looks_like_email(lower) THEN <<"scan_email", 90>>
                  ELSE IF looks_like_logs(lower) THEN <<"scan_logs", 85>>
                  ELSE IF table # {}
                  THEN <<INTENT_PATTERNS[CHOOSE k \in table : \A j \in table : k <= j].intent, 85>>
                  ELSE IF \E i \in 1..Len(lower) : lower[i] \in SECURITY_KEYWORDS
                  THEN <<"security_question", 70>>
                  ELSE <<"general_chat", 50>>

\* The documented cut points of each scanner's level table: CRITICAL, HIGH
\* and MEDIUM from the first, second and third number on, LOW above zero.
ScannerCuts == [LinkScanner |-> <<70, 50, 30>>, EmailScanner |-> <<60, 40, 20>>,
                LogsScanner |-> <<70, 50, 30>>]

LevelByCuts(cuts, score) ==
    IF score >= cuts[1] THEN "CRITICAL"
    ELSE IF score >= cuts[2] THEN "HIGH"
    ELSE IF score >= cuts[3] THEN "MEDIUM"
    ELSE IF score > 0 THEN "LOW"
    ELSE "SAFE"

\* C14. For the link, email and logs scanner and every input, the returned
\* score is an integer in 0..100 and the returned level is the scanner's
\* fixed threshold table applied to that returned (clamped) score.
C14_ScoreClampedLevelFromScore ==
    (tool \in DOMAIN ScannerCuts /\ ncalls >= 1) =>
        /\ tout.risk_score \in 0..100
        /\ tout.risk_level = LevelByCuts(ScannerCuts[tool], tout.risk_score)
        /\ ncalls = 2 =>
              /\ tout2.risk_score \in 0..100
              /\ tout2.risk_level = LevelByCuts(ScannerCuts[tool], tout2.risk_score)

\* A link scan whose score sits exactly on the CRITICAL cut point.
C14_Witness ==
    /\ tool = "LinkScanner"
    /\ ncalls = 1
    /\ tout.risk_score = 70
    /\ tout.risk_level = "CRITICAL"

\* The severity band of a level name.
Band(level) ==
    CASE level \in {"CRITICAL", "HIGH"} -> "high"
      [] level = "MEDIUM" -> "medium"
      [] OTHER -> "low"

\* C15. Every scanner maps score to level on one scale: a score of 70 or
\* more is High or Critical, a score of 40 or more is Medium, anything
\* below is Low or Safe, so that one score gets one severity band whichever
\* scanner returned it.
C15_OneScale ==
    (tool \in {"LinkScanner", "EmailScanner", "LogsScanner", "analyze_link"} /\ ncalls >= 1) =>
        Band(tout.risk_level) = IF tout.risk_score >= 70 THEN "high"
                                ELSE IF tout.risk_score >= 40 THEN "medium"
                                ELSE "low"

\* Every element of a occurs in b at least as often as in a.
Within(a, b) ==
    \A i \in 1..Len(a) :
        Cardinality({j \in 1..Len(a) : a[j] = a[i]}) <= Cardinality({j \in 1..Len(b) : b[j] = a[i]})

\* The two calls are of one scorer, the signals matched by the first input
\* are all matched by the second, and the inputs agree on the
\* trusted-domain discount.
SignalsGrow ==
    /\ ncalls = 2
    /\ tool \in {"LinkScanner", "EmailScanner", "LogsScanner", "analyze_link"}
    /\ Within(tout.signals, tout2.signals)
    /\ tool = "LinkScanner" =>
          (\E i \in 1..Len(tout.signals) : tout.signals[i] = "Trusted domain")
            = (\E i \in 1..Len(tout2.signals) : tout2.signals[i] = "Trusted domain")

C17_ScanDeterministic ==
    (ncalls = 2 /\ tool # "detect_intent" /\ tin2 = tin) =>
        /\ tout2.risk_score = tout.risk_score
        /\ tout2.risk_level = tout.risk_level
        /\ tout2.verdict = tout.verdict

\* C19. Empty or malformed scanner input never raises and yields zero
\* signals, a Safe or Low level and a neutral recommendation, for each of
\* the link, email and logs scanners.
C19_EmptyInputIsSafe ==
    LET scanner == tool \in {"LinkScanner", "EmailScanner", "LogsScanner"}
        blank == IF tool = "LinkScanner" THEN tin = EmptyUrl \/ ~tin.parses ELSE tin = <<>>
    IN  (scanner /\ ncalls >= 1 /\ blank) =>
            /\ tout.signals = <<>>
            /\ tout.risk_level \in {"SAFE", "LOW"}
            /\ tout.recommended_action \in
                  {"No action needed - URL appears legitimate.",
                   "Safe to visit but stay alert for suspicious activity.",
                   "Email appears legitimate - no action needed.",
                   "Probably safe but verify sender if unexpected.",
                   "Continue normal monitoring - no immediate action required."}

\* The raw ids of the user with base id x: x itself and x under each
\* platform prefix.
Aliases(x) == {x} \cup {<<p>> \o x : p \in PrefixSet}

\* C20. clear_memory removes the user's context entirely: right after it,
\* under every platform-prefixed alias of that user, get_context_string is
\* empty and get_user_stats reports 0 entries, no summary and no last
\* intent; and the first save_memory into a context takes only its own
\* turn, with an empty summary before it.
C20_ClearRemovesContext ==
    /\ lastCall.op = "clear_memory" =>
          \A x \in BaseIds :
              (\E u \in Aliases(x) : normalize_user_id(u, "web") = lastCall.key) =>
                  \A a \in Aliases(x), platform \in Platforms :
                      LET st == get_user_stats(store, a, platform)
                      IN  /\ get_context_string(store, a, platform, DefaultMaxTurns) = <<>>
                          /\ st.total_entries = 0
                          /\ ~st.has_summary
                          /\ st.last_intent = None
    /\ (lastCall.op = "save_memory" /\ Len(hist[lastCall.key]) = 2) =>
          /\ lastCall.summary_before = <<>>
          /\ \A i \in 1..Len(store[lastCall.key].entries) :
                store[lastCall.key].entries[i] \in {hist[lastCall.key][1], hist[lastCall.key][2]}

\* The key of the context call c uses.
KeyOf(c) == normalize_user_id(tasks[c].request.user_id, tasks[c].request.platform)

\* The turn of call c: its message, then the reply made for it.
TurnOf(c) ==
    << MemoryEntry("user", MessageOf(c), tasks[c].request.platform, <<tasks[c].intent>>),
       MemoryEntry("assistant", ReplyOf(c), tasks[c].request.platform, <<tasks[c].intent>>) >>

\* The turns of the calls among cs made for key k, in the order the calls
\* ended.
TurnsFor(k, cs) ==
    LET first == CHOOSE c \in Tasks : \A d \in Tasks : tasks[c].seq <= tasks[d].seq
        second == CHOOSE c \in Tasks : c # first
        turn(c) == IF c \in cs /\ KeyOf(c) = k THEN TurnOf(c) ELSE <<>>
    IN  turn(first) \o turn(second)

\* C18. Two process_message calls in flight together, interleaved at the
\* await, lose no update: when both are over, the context of each call's
\* user holds the turns of the calls made for that user, each message
\* followed by its own reply, in the order the calls ended and cut to the
\* last max_entries entries; a call for another user leaves it alone.
C18_NoLostUpdate ==
    Finished = Tasks =>
        \A c \in Tasks :
            LET k == KeyOf(c)
                all == TurnsFor(k, Tasks)
            IN  /\ k \in DOMAIN store
                /\ Len(store[k].entries) <= max_entries
                /\ store[k].entries =
                      IF Len(all) > max_entries
                      THEN SubSeq(all, Len(all) - max_entries + 1, Len(all))
                      ELSE all

\* C21. get_context_string(user_id, platform, max_turns) renders the
\* summary, when there is one, and then the last max_turns * 2 entries (all
\* of them when there are fewer) in the order they were saved, for every
\* max_turns >= 0.
C21_RecentTurns ==
    \A user_id \in RawIds, max_turns \in 0..DefaultMaxTurns :
        LET ctx == Lookup(user_id)
            entries == IF ctx = {} THEN <<>> ELSE (CHOOSE c \in ctx : TRUE).entries
            summary == IF ctx = {} THEN <<>> ELSE (CHOOSE c \in ctx : TRUE).summary
            n == Min(max_turns * 2, Len(entries))
            recent == SubSeq(entries, Len(entries) - n + 1, Len(entries))
            head == IF summary # <<>> THEN << <<"Previous Summary: ">> \o summary >> ELSE <<>>
        IN  get_context_string(store, user_id, "web", max_turns)
              = Join(head \o EntryLines(recent), "\n")

\* C22. get_user_stats reports as last intent and last platform those of
\* the user's most recent save_memory, whichever platform argument the
\* read operations were called with since.
C22_LastOfLatestSave ==
    \A user_id \in RawIds, platform \in Platforms :
        LET k == normalize_user_id(user_id, platform)
            st == get_user_stats(store, user_id, platform)
        IN  (k \in DOMAIN hist /\ hist[k] # <<>>) =>
                /\ st.last_intent = hist[k][Len(hist[k])].intent
                /\ st.last_platform = hist[k][Len(hist[k])].platform

\* The scanner called for the message in progress raised.
ScannerRaised == \E i \in 1..Len(phases) : phases[i] = "scanner_raised"

\* C23. A scanner that raises during a scan message does not abort the
\* turn: the handler returns the fixed tools-unavailable reply of the scan
\* type with the scan intent, no explanation is asked of the LLM router for
\* the failed scan, and the turn is saved.
C23_ScannerFailureKeepsTurn ==
    ScannerRaised =>
        LET intent == intent_result.intent
            urls == IF intent_result.urls # <<>> THEN intent_result.urls
                    ELSE extract_urls(request.message)
        IN  /\ gpc \in {"save", "format", "return"}
            /\ error = <<>>
            /\ intent \in {"scan_link", "scan_email", "scan_logs"}
            /\ response = ToolsUnavailableReply(ScanType(intent), urls)
            /\ response.intent = intent
            /\ rop = "idle" /\ calls = <<>>
            /\ gpc \in {"format", "return"} =>
                  saved = << [user_message |-> request.message,
                              assistant_reply |-> response.text] >>
            /\ gpc = "return" => (reply.intent = intent /\ reply.text = response.text)

\* An email scan whose scanner raised, in a gateway with an LLM router,
\* returns.
C23_Witness ==
    /\ ScannerRaised
    /\ gpc = "return"
    /\ llm_router
    /\ intent_result.intent = "scan_email"
    /\ Len(saved) = 1

\* The intent of the first entry of INTENT_PATTERNS with an expression
\* found in the text, "none" when there is no such entry.
TableIntent(message_lower) ==
    LET hits == {k \in 1..Len(INTENT_PATTERNS) :
                    \E p \in INTENT_PATTERNS[k].patterns : Search(p, message_lower)}
    IN  IF hits = {} THEN "none"
        ELSE INTENT_PATTERNS[CHOOSE k \in hits : \A j \in hits : k <= j].intent

\* The indicators of the set found in the text.
Indicators(set, message_lower) == Cardinality({p \in set : Search(p, message_lower)})

\* C24. The pattern table produces guardian_status, help, greeting or
\* security_question only; a scan intent comes from the content rules:
\* scan_link only with confidence 0.95 and a non-empty URL list, scan_email
\* only with 0.90, scan_logs only with two or more log indicators.
C24_ScanOnlyByContent ==
    (tool = "detect_intent" /\ ncalls >= 1 /\ ~tout.exc) =>
        LET r == tout.val
        IN  /\ r.intent = "scan_link" => (r.confidence = 95 /\ r.urls # <<>>)
            /\ r.intent = "scan_email" => r.confidence = 90
            /\ r.intent = "scan_logs" => Indicators(log_indicators, Lower(tin)) >= 2

\* C24, amended. A scan intent comes from a content rule or from the
\* pattern table, which lists the scan intents too: scan_link with 0.95 and
\* the URLs found, or with 0.85 and no URL from the table; scan_email with
\* 0.90 and two or more email indicators, or with 0.85 from the table;
\* scan_logs with 0.85, with two or more log indicators or from the table.
\* The table is reached only by a text without URL that is neither email
\* nor logs.
C24_ScanByContentOrTable ==
    (tool = "detect_intent" /\ ncalls >= 1 /\ ~tout.exc) =>
        LET r == tout.val
            lower == Lower(tin)
            emails == Indicators(email_indicators, lower)
            logs == Indicators(log_indicators, lower)
            table == TableIntent(lower)
            tabled == r.confidence = 85 /\ r.urls = <<>> /\ table = r.intent
                      /\ extract_urls(tin) = <<>> /\ emails < 2 /\ logs < 2
        IN  /\ r.intent = "scan_link" =>
                  \/ r.confidence = 95 /\ r.urls # <<>> /\ r.urls = extract_urls(tin)
                  \/ tabled
            /\ r.intent = "scan_email" =>
                  \/ r.confidence = 90 /\ emails >= 2 /\ extract_urls(tin) = <<>>
                  \/ tabled
            /\ r.intent = "scan_logs" =>
                  /\ r.confidence = 85
                  /\ extract_urls(tin) = <<>> /\ emails < 2
                  /\ logs >= 2 \/ tabled

\* The table classified a text without URL as scan_link.
C24_Witness ==
    /\ tool = "detect_intent"
    /\ ncalls = 1
    /\ tout.val.intent = "scan_link"
    /\ tout.val.confidence = 85
    /\ tout.val.urls = <<>>

\* The number of occurrences of the address in the lines of the log.
Occurrences(logs, ip) ==
    Cardinality(UNION {{<<i, j>> : j \in {j \in 1..Len(logs[i]) : logs[i][j] = ip}} :
                       i \in 1..Len(logs)})

\* The log without its addresses.
WithoutIps(logs) ==
    [i \in 1..Len(logs) |-> SelectSeq(logs[i], LAMBDA w : w \notin LogIps)]

\* C25. LogsScanner: every address that occurs five times or more in the
\* lines adds 20 to the score before the cap, has its signal among the
\* returned signals and is in suspicious_ips; no address that occurs fewer
\* than five times is in suspicious_ips.
C25_BusyIpsAreSuspicious ==
    (tool = "LogsScanner" /\ ncalls >= 1) =>
        LET busy == {ip \in LogIps : Occurrences(tin, ip) >= 5}
        IN  /\ LogsScanner_score(tin).risk_score
                  = LogsScanner_score(WithoutIps(tin)).risk_score + 20 * Cardinality(busy)
            /\ \A ip \in busy :
                  \E i \in 1..Len(tout.signals) :
                      tout.signals[i] = <<"Multiple events from IP", ip, Occurrences(tin, ip)>>
            /\ tout.suspicious_ips = busy

\* ------------------------------------------------------------------------
\* SpecProviders: the LLMRouter with remote providers that may never respond
\* ------------------------------------------------------------------------

\* ClaudeLLM.generate and GeminiLLM.generate call their client
\* (messages.create, generate_content) with no timeout and nothing around
\* the call that would end it: when the provider never responds, the call
\* that generate awaits in _try_provider never completes.
GenNeverResponds ==
    /\ rop = "generate"
    /\ \/ rpc = "preferred" /\ preferred \in Remotes /\ avail[preferred]
       \/ rpc \in Remotes /\ avail[rpc]
    /\ rpc' = "waiting"
    /\ UNCHANGED <<preferred, avail, last_provider, rop, prompt, scan_result, calls, rresult,
                   raised, last_before>>

NextProviders ==
    \/ NextRouter
    \/ GenNeverResponds /\ UNCHANGED <<memVars, gwVars, toolVars, taskVars>>

\* The event loop runs a call that can take a step.
SpecProviders ==
    /\ InitRouter
    /\ [][NextProviders]_vars
    /\ WF_vars((RouterStep \/ RouterReturn) /\ UNCHANGED <<memVars, gwVars, toolVars, taskVars>>)

\* C26. Every generate call eventually returns, even when a remote provider
\* never responds: the provider call is bounded by a timeout, after which
\* the chain goes on to the next provider.
C26_GenerateReturns == (rop = "generate") ~> (rpc = "return")

\* C27. Within one generate call each provider's generate is invoked at
\* most once, for every preferred provider and every pattern of provider
\* failures.
C27_EachProviderOnce ==
    rop = "generate" =>
        \A p \in Remotes \cup {"local"} :
            Cardinality({i \in 1..Len(calls) : calls[i].provider = p}) <= 1

\* C28. The context handed to the provider chain (generate,
\* answer_security_question, explain_scan) while a message is processed is
\* built from the turns saved before that message only: it is the
\* rendering of the stored context, into which the call has saved nothing
\* yet, so neither the message being processed nor its reply is in it.
C28_ContextFromEarlierTurns ==
    rop # "idle" =>
        /\ gpc = "handler"
        /\ saved = <<>>
        /\ lastCall.op # "save_memory"
        /\ context = get_context_string(store, request.user_id, request.platform,
                                        DefaultMaxTurns)

\* The provider chain is called with the context of an earlier turn.
C28_Witness ==
    /\ rop = "generate"
    /\ gpc = "handler"
    /\ context # <<>>
    /\ stats.total_messages = 2

\* C29. Frame: save_memory and clear_memory for a user leave the context
\* (entries, summary, last_intent, last_platform) of every other normalized
\* id as it was, and neither create nor delete another user's context.
C29_OtherUsersUntouched ==
    [][ lastCall'.op \in {"save_memory", "clear_memory"} =>
            \A x \in (DOMAIN store \cup DOMAIN store') \ {lastCall'.key} :
                /\ x \in DOMAIN store
                /\ x \in DOMAIN store'
                /\ store'[x] = store[x] ]_vars

\* A user's memory was cleared while another user has a context with
\* entries and a summary.
C29_Witness ==
    /\ lastCall.op = "clear_memory"
    /\ \E x \in DOMAIN store :
          /\ x # lastCall.key
          /\ store[x].entries # <<>>
          /\ store[x].summary # <<>>
    /\ lastCall.key \notin DOMAIN store

\* C30. _trim_memory retains exactly the min(len(entries), max_entries)
\* most recent entries in their order, for every max_entries >= 0 (none
\* when max_entries = 0): so it does on every list of entries a context was
\* given, and so a context stands after each save_memory.
C30_TrimKeepsMostRecent ==
    \A k \in DOMAIN store :
        LET all == hist[k]
            n == Min(Len(all), max_entries)
            latest == SubSeq(all, Len(all) - n + 1, Len(all))
        IN  /\ trim_memory([store[k] EXCEPT !.entries = all], max_entries).entries = latest
            /\ (lastCall.op = "save_memory" /\ lastCall.key = k) => store[k].entries = latest

====
